---- MODULE Spec2Model ----
(***************************************************************************)
(* Model of the PCB layout tools of PCB_MCP: the geometric checks of       *)
(* pcb_tool_check.py, the helpers of pcb_utility.py, the setters of        *)
(* pcb_tool_set.py, the design-rule report of pcb_mcp.py and the router    *)
(* run of routing.py, over a board document held by the pcbnew engine.     *)
(*                                                                         *)
(* Lengths are integers in tenths of a millimetre (the engine's internal   *)
(* unit is the nanometre; ToMM / FromMM are the change of scale, which is  *)
(* exact on the values used here).  Orientations are multiples of 90       *)
(* degrees or the angle 53 (cosine 0.6, sine 0.8), kept by the engine in   *)
(* the range (-180, 180].                                                  *)
(* A Python None is the empty sequence, a present value v is <<v>>.        *)
(***************************************************************************)
EXTENDS Integers, Sequences, FiniteSets, TLC

VARIABLES
    position,     \* footprint reference -> <<x, y>>
    orientation,  \* footprint reference -> degrees, as GetOrientationDegrees gives them
    locked,       \* footprint reference -> BOOLEAN
    graphics,     \* footprint reference -> sequence of [layer, box] in the footprint's frame
    pads,         \* footprint reference -> sequence of [number, off, net]
    drawings,     \* board drawings: sequence of [kind, layer, box]
    tracks,       \* the board's tracks: sequence of [net, start, end, width, layer]
    file,         \* the saved board file: [position, orientation, locked, tracks]
    router,       \* run_freerouting: [pc, starts, board, dsn, pads]
    evalPc,       \* position of the running tool: "idle", "sweep", "check", "finish", "drc"
    evalCall,     \* its locals: fn, module_ref, min_clearance, idx, msg, intersect, pad2pad
    ret,          \* the last completed call: [op, args, status, value]
    segments,     \* input of the segment-intersection detector
    segRet        \* its result, None before the call

boardVars == <<position, orientation, locked, graphics, pads, drawings, tracks>>
fileVars == <<file, router>>
vars == <<position, orientation, locked, graphics, pads, drawings, tracks, file, router,
          evalPc, evalCall, ret, segments, segRet>>

None == <<>>
Some(v) == <<v>>
Val(o) == o[1]

Max(a, b) == IF a >= b THEN a ELSE b
Min(a, b) == IF a <= b THEN a ELSE b

(***************************************************************************)
(* BOX2I of the engine: position and size.                                 *)
(***************************************************************************)
Box(x0, y0, x1, y1) == [x |-> x0, y |-> y0, w |-> x1 - x0, h |-> y1 - y0]

\* BOX2I.Inflate by a margin d >= 0 on every side.
BoxInflateOneSide(b, d) == [x |-> b.x - d, y |-> b.y - d, w |-> b.w + d, h |-> b.h + d]
BoxInflate(b, d) == [x |-> b.x - d, y |-> b.y - d, w |-> b.w + 2 * d, h |-> b.h + 2 * d]

\* BOX2I.Intersects: a common area of null size is accepted (touching edges intersect).
BoxIntersectsStrict(a, b) ==
    /\ Max(a.x, b.x) < Min(a.x + a.w, b.x + b.w)
    /\ Max(a.y, b.y) < Min(a.y + a.h, b.y + b.h)
BoxIntersects(a, b) ==
    /\ Max(a.x, b.x) <= Min(a.x + a.w, b.x + b.w)
    /\ Max(a.y, b.y) <= Min(a.y + a.h, b.y + b.h)

\* BOX2I.Contains(box): the origin and the end of b lie in a, borders included.
BoxContainsOriginOnly(a, b) ==
    /\ a.x <= b.x /\ b.x <= a.x + a.w
    /\ a.y <= b.y /\ b.y <= a.y + a.h
BoxContains(a, b) ==
    /\ a.x <= b.x /\ b.x + b.w <= a.x + a.w
    /\ a.y <= b.y /\ b.y + b.h <= a.y + a.h

\* BOX2I.Merge: the smallest box covering both.
BoxMerge(a, b) ==
    Box(Min(a.x, b.x), Min(a.y, b.y),
        Max(a.x + a.w, b.x + b.w), Max(a.y + a.h, b.y + b.h))

(***************************************************************************)
(* The board document.                                                     *)
(***************************************************************************)
\* board.GetFootprints(), in the board's iteration order.
Modules == <<"U1", "U2", "U3">>
Refs == {Modules[i] : i \in 1..Len(Modules)}

\* FOOTPRINT.SetOrientationDegrees keeps the angle in (-180, 180].
Normalize180(a) == IF a > 180 THEN a - 360 ELSE IF a <= -180 THEN a + 360 ELSE a

\* The engine's rounding of n / 5 to the nearest integer.
KiRound5(n) == (2 * n + 5) \div 10

\* A point of the footprint's frame, turned by a multiple of 90 degrees, or
\* by 53 degrees: the angle 53.13 whose cosine and sine are 0.6 and 0.8, the
\* turned point rounded to the model's unit of length.
RotatePoint(p, a) ==
    CASE a = 0 -> p
      [] a = 90 -> <<p[2], -p[1]>>
      [] a = 180 -> <<-p[1], -p[2]>>
      [] a = 53 -> <<KiRound5(3 * p[1] + 4 * p[2]), KiRound5(3 * p[2] - 4 * p[1])>>
      [] OTHER -> <<-p[2], p[1]>>

\* The bounding box on the board of a box of footprint ref's frame.
PlacedBox(ref, b) ==
    LET p == RotatePoint(<<b.x, b.y>>, orientation[ref])
        q == RotatePoint(<<b.x + b.w, b.y + b.h>>, orientation[ref])
        r == RotatePoint(<<b.x + b.w, b.y>>, orientation[ref])
        t == RotatePoint(<<b.x, b.y + b.h>>, orientation[ref])
        o == position[ref]
    IN Box(o[1] + Min(Min(p[1], q[1]), Min(r[1], t[1])),
           o[2] + Min(Min(p[2], q[2]), Min(r[2], t[2])),
           o[1] + Max(Max(p[1], q[1]), Max(r[1], t[1])),
           o[2] + Max(Max(p[2], q[2]), Max(r[2], t[2])))

\* PAD.GetPosition on the board.
PadPosition(ref, pad) ==
    LET r == RotatePoint(pad.off, orientation[ref])
    IN <<position[ref][1] + r[1], position[ref][2] + r[2]>>

\* board.FindNet(name).GetNetCode(); code 0 is the unconnected net.
NetCode(name) ==
    CASE name = "" -> 0
      [] name = "GND" -> 1
      [] name = "A" -> 2
      [] name = "B" -> 3
      [] OTHER -> 4

(***************************************************************************)
(* pcb_utility.py                                                          *)
(***************************************************************************)
\* The loop of get_footprint_courtyard / get_board_courtyard over the boxes
\* of the selected graphics: the first box, merged with each later one.
RECURSIVE MergeAll(_, _)
MergeAll(acc, boxes) ==
    IF boxes = <<>> THEN acc
    ELSE MergeAll(IF acc = None THEN Some(Head(boxes))
                  ELSE Some(BoxMerge(Val(acc), Head(boxes))), Tail(boxes))

IsCourtyardLayer(g) == g.layer \in {"F_CrtYd", "B_CrtYd"}

CourtyardAnyLayer(ref) ==
    MergeAll(None, [i \in 1..Len(graphics[ref]) |-> PlacedBox(ref, graphics[ref][i].box)])
get_footprint_courtyard(ref) ==
    LET sel == SelectSeq(graphics[ref], IsCourtyardLayer)
    IN MergeAll(None, [i \in 1..Len(sel) |-> PlacedBox(ref, sel[i].box)])

get_footprint_size_never_swapped(ref) ==
    LET courtyard_bbox == get_footprint_courtyard(ref)
    IN IF courtyard_bbox # None
       THEN <<Some(Val(courtyard_bbox).w), Some(Val(courtyard_bbox).h)>>
       ELSE <<None, None>>
\* get_footprint_size: (w, h) of the courtyard on the board, given as (h, w)
\* when GetOrientationDegrees is 90 or -90; (None, None) without a courtyard.
\* A width or height that is not None is <<v>>.
get_footprint_size(ref) ==
    LET courtyard_bbox == get_footprint_courtyard(ref)
    IN IF courtyard_bbox # None
       THEN LET w == Val(courtyard_bbox).w
                h == Val(courtyard_bbox).h
                angle_degrees == orientation[ref]
            IN IF angle_degrees = 90 \/ angle_degrees = -90
               THEN <<Some(h), Some(w)>>
               ELSE <<Some(w), Some(h)>>
       ELSE <<None, None>>

IsEdgeCuts(d) == d.layer = "Edge_Cuts"

get_board_courtyard ==
    LET sel == SelectSeq(drawings, IsEdgeCuts)
    IN MergeAll(None, [i \in 1..Len(sel) |-> sel[i].box])

(***************************************************************************)
(* Segment-intersection detector (pcb_utility.py).  A segment is the tuple *)
(* <<x1, y1, x2, y2, net>>; a reported pair is <<i, j, net_i, net_j>> with *)
(* the 0-based indices of the input.  Coordinates are integers, on which   *)
(* the products and differences of ccw are exact; the rounding of binary   *)
(* floating point on non-integer coordinates is not modelled.              *)
(***************************************************************************)
ccw(ax, ay, bx, by, cx, cy) == (cy - ay) * (bx - ax) > (by - ay) * (cx - ax)

check_two_segments_first_test_only(x1, y1, x2, y2, x3, y3, x4, y4) ==
    ccw(x1, y1, x3, y3, x4, y4) # ccw(x2, y2, x3, y3, x4, y4)
check_two_segments_second_test_only(x1, y1, x2, y2, x3, y3, x4, y4) ==
    ccw(x1, y1, x2, y2, x3, y3) # ccw(x1, y1, x2, y2, x4, y4)
check_two_segments(x1, y1, x2, y2, x3, y3, x4, y4) ==
    /\ ccw(x1, y1, x3, y3, x4, y4) # ccw(x2, y2, x3, y3, x4, y4)
    /\ ccw(x1, y1, x2, y2, x3, y3) # ccw(x1, y1, x2, y2, x4, y4)

\* The test of one pair (i, j), 1-based, of the double loop.
SegPairReportedAnyNet(segs, i, j) ==
    LET s1 == segs[i]
        s2 == segs[j]
    IN check_two_segments(s1[1], s1[2], s1[3], s1[4], s2[1], s2[2], s2[3], s2[4])
SegPairReported(segs, i, j) ==
    LET s1 == segs[i]
        s2 == segs[j]
    IN /\ s1[5] # s2[5]
       /\ check_two_segments(s1[1], s1[2], s1[3], s1[4], s2[1], s2[2], s2[3], s2[4])

RECURSIVE SegLoopEveryJ(_, _, _)
SegLoopEveryJ(segs, i, j) ==
    IF i > Len(segs) THEN <<>>
    ELSE IF j > Len(segs) THEN SegLoopEveryJ(segs, i + 1, 1)
    ELSE (IF i # j /\ SegPairReported(segs, i, j)
          THEN << <<i - 1, j - 1, segs[i][5], segs[j][5]>> >>
          ELSE <<>>) \o SegLoopEveryJ(segs, i, j + 1)
\* The double loop: i over range(n), j over range(i + 1, n).
RECURSIVE SegLoop(_, _, _)
SegLoop(segs, i, j) ==
    IF i > Len(segs) THEN <<>>
    ELSE IF j > Len(segs) THEN SegLoop(segs, i + 1, i + 2)
    ELSE (IF SegPairReported(segs, i, j)
          THEN << <<i - 1, j - 1, segs[i][5], segs[j][5]>> >>
          ELSE <<>>) \o SegLoop(segs, i, j + 1)

check_segments_intersect(segs) ==
    IF Len(segs) < 2 THEN <<>> ELSE SegLoop(segs, 1, 2)

(***************************************************************************)
(* pcb_tool_check.py.  A function that can raise returns [exc, acc]: exc   *)
(* is "" when it ran to its end and the Python exception class otherwise.  *)
(***************************************************************************)
DefaultClearance == 2

BoxSize(b) == <<b.w, b.h>>

OnBoardIssue(what, size, pos) ==
    [kind |-> "On-Board Issue", what |-> what, size |-> size, pos |-> pos]

\* The loop over board.GetFootprints() of check_board_onboard_violations.
\* None.Contains raises AttributeError; Contains(None) is refused by the engine.
RECURSIVE OnboardModules(_, _, _)
OnboardModules(bc, ms, acc) ==
    IF ms = <<>> THEN [exc |-> "", acc |-> acc]
    ELSE LET ref == Head(ms)
             module_courtyard == get_footprint_courtyard(ref)
         IN IF bc = None THEN [exc |-> "AttributeError", acc |-> acc]
            ELSE IF module_courtyard = None THEN [exc |-> "TypeError", acc |-> acc]
            ELSE OnboardModules(bc, Tail(ms),
                    IF ~BoxContains(Val(bc), Val(module_courtyard))
                    THEN Append(acc, OnBoardIssue(ref, BoxSize(Val(module_courtyard)),
                                                  position[ref]))
                    ELSE acc)

UserLayers == {"User_1", "User_2", "User_3", "User_4"}

IsUserLayerAny(layer) == TRUE
IsUserLayer(layer) == layer \in UserLayers

ItemType(item) ==
    IF item.kind = "PCB_SHAPE" THEN "Shape" ELSE IF item.kind = "PCB_TEXT" THEN "Text"
    ELSE "Drawing"

\* The loop over board.GetDrawings() of check_board_onboard_violations.
RECURSIVE OnboardDrawings(_, _, _)
OnboardDrawings(bc, ds, acc) ==
    IF ds = <<>> THEN [exc |-> "", acc |-> acc]
    ELSE LET item == Head(ds)
         IN IF item.kind \in {"PCB_SHAPE", "PCB_TEXT"} /\ IsUserLayer(item.layer)
            THEN IF bc = None THEN [exc |-> "AttributeError", acc |-> acc]
                 ELSE OnboardDrawings(bc, Tail(ds),
                         IF ~BoxContains(Val(bc), item.box)
                         THEN Append(acc, OnBoardIssue(ItemType(item), BoxSize(item.box),
                                                       item.pos))
                         ELSE acc)
            ELSE OnboardDrawings(bc, Tail(ds), acc)

ErrorLine(text) == [kind |-> "Error", what |-> text]

check_board_onboard_violations ==
    LET board_courtyard == get_board_courtyard
        r1 == OnboardModules(board_courtyard, Modules, <<>>)
        r2 == IF r1.exc = "" THEN OnboardDrawings(board_courtyard, drawings, r1.acc) ELSE r1
    IN IF r2.exc = "" THEN r2.acc
       ELSE IF r2.exc = "AttributeError"
       THEN <<ErrorLine("Invalid board object or missing method")>>
       ELSE <<ErrorLine("Failed to check on-board violations")>>

ClearanceIssue(ref1, ref2, bbox1, bbox2) ==
    [kind |-> "Clearance Issue", ref1 |-> ref1, ref2 |-> ref2,
     size1 |-> BoxSize(bbox1), pos1 |-> position[ref1],
     size2 |-> BoxSize(bbox2), pos2 |-> position[ref2]]

\* The inner loop of check_board_clearance_violations: mod2 over modules[i+1:].
RECURSIVE ClearanceInner(_, _, _, _, _)
ClearanceInner(ref1, bbox1, expanded_bbox1, ms, acc) ==
    IF ms = <<>> THEN [exc |-> "", acc |-> acc]
    ELSE LET ref2 == Head(ms)
             bbox2 == get_footprint_courtyard(ref2)
         IN IF bbox2 = None THEN [exc |-> "TypeError", acc |-> acc]
            ELSE ClearanceInner(ref1, bbox1, expanded_bbox1, Tail(ms),
                    IF BoxIntersects(expanded_bbox1, Val(bbox2))
                    THEN Append(acc, ClearanceIssue(ref1, ref2, bbox1, Val(bbox2)))
                    ELSE acc)

\* The outer loop: mod1 over the footprints; ms is modules[i:].
RECURSIVE ClearanceOuter(_, _, _)
ClearanceOuter(ms, mc, acc) ==
    IF ms = <<>> THEN [exc |-> "", acc |-> acc]
    ELSE LET ref1 == Head(ms)
             bbox1 == get_footprint_courtyard(ref1)
         IN IF bbox1 = None THEN [exc |-> "AttributeError", acc |-> acc]
            ELSE LET inner == ClearanceInner(ref1, Val(bbox1), BoxInflate(Val(bbox1), mc),
                                             Tail(ms), acc)
                 IN IF inner.exc # "" THEN inner
                    ELSE ClearanceOuter(Tail(ms), mc, inner.acc)

check_board_clearance_violations(min_clearance) ==
    LET mc == IF min_clearance = None THEN DefaultClearance ELSE Val(min_clearance)
        r == ClearanceOuter(Modules, mc, <<>>)
    IN IF r.exc = "" THEN r.acc
       ELSE IF r.exc = "AttributeError"
       THEN <<ErrorLine("Invalid board object or missing method")>>
       ELSE <<ErrorLine("Failed to check clearance violations")>>

\* FOOTPRINT.GetBoundingBox: the footprint's graphics and pads on the board.
FootprintBoundingBox(ref) ==
    MergeAll(None, [i \in 1..Len(graphics[ref]) |-> PlacedBox(ref, graphics[ref][i].box)]
                    \o [i \in 1..Len(pads[ref]) |->
                           Box(PadPosition(ref, pads[ref][i])[1], PadPosition(ref, pads[ref][i])[2],
                               PadPosition(ref, pads[ref][i])[1], PadPosition(ref, pads[ref][i])[2])])

\* The bounding box of a track: its two ends, widened by half the width (the
\* widths on the boards whose bounding box is computed are even).
TrackBox(t) ==
    LET lo(a, b) == IF a <= b THEN a ELSE b
        hi(a, b) == IF a >= b THEN a ELSE b
        d == t.width \div 2
    IN Box(lo(t.start[1], t.end[1]) - d, lo(t.start[2], t.end[2]) - d,
           hi(t.start[1], t.end[1]) + d, hi(t.start[2], t.end[2]) + d)

\* board.ComputeBoundingBox() of a board with the drawings dr and the tracks
\* trk: every drawing, the Edge_Cuts outline included, every footprint and
\* every track.
ComputeBoundingBoxOf(dr, trk) ==
    LET fps == SelectSeq([i \in 1..Len(Modules) |-> FootprintBoundingBox(Modules[i])],
                         LAMBDA b : b # None)
    IN MergeAll(None, [i \in 1..Len(dr) |-> dr[i].box]
                        \o [i \in 1..Len(fps) |-> Val(fps[i])]
                        \o [i \in 1..Len(trk) |-> TrackBox(trk[i])])

ComputeBoundingBox == ComputeBoundingBoxOf(drawings, tracks)

\* The loop of calculate_power_density: None * None raises TypeError.
RECURSIVE FootprintAreaLoop(_, _)
FootprintAreaLoop(ms, footprint_arae) ==
    IF ms = <<>> THEN [exc |-> "", acc |-> footprint_arae]
    ELSE LET size == get_footprint_size(Head(ms))
         IN IF size[1] = None \/ size[2] = None
            THEN [exc |-> "TypeError", acc |-> footprint_arae]
            ELSE FootprintAreaLoop(Tail(ms), footprint_arae + Val(size[1]) * Val(size[2]))

\* power_density < 40, with power_density = footprint_arae / board_area * 100,
\* or 0 when board_area is 0.
PlacedTooLoosely(footprint_arae, board_area) ==
    IF board_area > 0 THEN footprint_arae * 100 < 40 * board_area ELSE TRUE

\* calculate_power_density: the areas are in units of 0.01 mm2.
calculate_power_density ==
    LET sum == FootprintAreaLoop(Modules, 0)
        board_size == ComputeBoundingBox
        board_area == IF board_size = None THEN 0
                      ELSE Val(board_size).w * Val(board_size).h
    IN IF sum.exc # "" THEN [exc |-> sum.exc, acc |-> <<>>]
       ELSE [exc |-> "",
             acc |-> [footprint_area |-> sum.acc, board_area |-> board_area,
                      info |-> IF PlacedTooLoosely(sum.acc, board_area)
                               THEN "Warning: modules are placed too loosely"
                               ELSE "The modules are placed appropriately."]]

\* The loop of check_module_clearance over the footprints other than mod1.
RECURSIVE ModuleClearanceLoop(_, _, _, _)
ModuleClearanceLoop(ref1, expanded_bbox1, ms, acc) ==
    IF ms = <<>> THEN [exc |-> "", acc |-> acc]
    ELSE LET ref2 == Head(ms)
             bbox2 == get_footprint_courtyard(ref2)
         IN IF ref2 = ref1 THEN ModuleClearanceLoop(ref1, expanded_bbox1, Tail(ms), acc)
            ELSE IF bbox2 = None THEN [exc |-> "TypeError", acc |-> acc]
            ELSE ModuleClearanceLoop(ref1, expanded_bbox1, Tail(ms),
                    IF BoxIntersects(expanded_bbox1, Val(bbox2)) THEN Append(acc, ref2)
                    ELSE acc)

check_module_clearance(ref1, mc) ==
    LET bbox1 == get_footprint_courtyard(ref1)
    IN IF bbox1 = None THEN [exc |-> "AttributeError", acc |-> <<>>]
       ELSE ModuleClearanceLoop(ref1, BoxInflate(Val(bbox1), mc), Modules, <<>>)

\* Squared Euclidean distance (the code compares the distances themselves).
Dist2(p, q) == (p[1] - q[1]) * (p[1] - q[1]) + (p[2] - q[2]) * (p[2] - q[2])

\* The three nested loops of check_pad2pad_connection, giving the pad pairs
\* [pad, peer, pad_i] in the order the code meets them.
RECURSIVE PeerPadLoop(_, _, _)
PeerPadLoop(pad, peer, qs) ==
    IF qs = <<>> THEN <<>>
    ELSE (IF NetCode(Head(qs).net) = NetCode(pad.net)
          THEN <<[pad |-> pad, peer |-> peer, pad_i |-> Head(qs)]>>
          ELSE <<>>) \o PeerPadLoop(pad, peer, Tail(qs))

RECURSIVE PeerLoopLockedToo(_, _, _)
PeerLoopLockedToo(ref, pad, ms) ==
    IF ms = <<>> THEN <<>>
    ELSE (IF Head(ms) # ref
          THEN PeerPadLoop(pad, Head(ms), pads[Head(ms)])
          ELSE <<>>) \o PeerLoopLockedToo(ref, pad, Tail(ms))

RECURSIVE PeerLoop(_, _, _)
PeerLoop(ref, pad, ms) ==
    IF ms = <<>> THEN <<>>
    ELSE (IF Head(ms) # ref /\ locked[Head(ms)] = FALSE
          THEN PeerPadLoop(pad, Head(ms), pads[Head(ms)])
          ELSE <<>>) \o PeerLoop(ref, pad, Tail(ms))

RECURSIVE PadLoop(_, _)
PadLoop(ref, ps) ==
    IF ps = <<>> THEN <<>>
    ELSE (IF Head(ps).net # "" /\ Head(ps).net # "GND"
          THEN PeerLoop(ref, Head(ps), Modules)
          ELSE <<>>) \o PadLoop(ref, Tail(ps))

PadPairs(ref) == PadLoop(ref, pads[ref])

pad2pad_distance2(ref, pr) == Dist2(PadPosition(ref, pr.pad), PadPosition(pr.peer, pr.pad_i))
module2module_distance2(ref, pr) == Dist2(position[ref], position[pr.peer])

AlignmentFlaggedAlsoWhenEqual(ref, pr) ==
    pad2pad_distance2(ref, pr) >= module2module_distance2(ref, pr)
\* if pad2pad_distance > module2module_distance: the pair is flagged.
AlignmentFlagged(ref, pr) ==
    pad2pad_distance2(ref, pr) > module2module_distance2(ref, pr)

\* The keys of module_connections, in insertion order.
RECURSIVE FirstSeen(_, _)
FirstSeen(prs, seen) ==
    IF prs = <<>> THEN <<>>
    ELSE IF Head(prs).peer \in seen THEN FirstSeen(Tail(prs), seen)
    ELSE <<Head(prs).peer>> \o FirstSeen(Tail(prs), seen \cup {Head(prs).peer})

check_pad2pad_connection(ref) ==
    LET prs == PadPairs(ref)
        Flagged(pr) == AlignmentFlagged(ref, pr)
        fl == SelectSeq(prs, Flagged)
        segs == [k \in 1..Len(prs) |->
                    <<PadPosition(ref, prs[k].pad)[1], PadPosition(ref, prs[k].pad)[2],
                      PadPosition(prs[k].peer, prs[k].pad_i)[1],
                      PadPosition(prs[k].peer, prs[k].pad_i)[2], prs[k].pad.net>>]
        keys == FirstSeen(prs, {})
        Notes(peer) ==
            LET Of(pr) == pr.peer = peer
                mine == SelectSeq(prs, Of)
            IN [k \in 1..Len(mine) |->
                   <<mine[k].pad.number, mine[k].pad_i.number, mine[k].pad.net,
                     pad2pad_distance2(ref, mine[k])>>]
    IN [alignment |-> [k \in 1..Len(fl) |->
                          <<fl[k].pad.number, ref, fl[k].pad_i.number, fl[k].peer,
                            fl[k].pad.net>>],
        intersect |-> check_segments_intersect(segs),
        distance_info |-> [k \in 1..Len(keys) |->
                              [peer |-> keys[k],
                               distance2 |-> Dist2(position[ref], position[keys[k]]),
                               connections |-> Notes(keys[k])]],
        segments |-> segs]

AnglesThenBack == <<0, 90, 180, 270, 0>>
\* The angles of the placement sweep, in the order tested.
Angles == <<0, 90, 180, 270>>

FindingAlignmentFirst(angle, overlapped_modules, c) ==
    IF c.alignment # <<>>
    THEN [tag |-> "WARNING", angle |-> angle, why |-> "misalignment", items |-> c.alignment]
    ELSE IF overlapped_modules # <<>>
    THEN [tag |-> "ERROR", angle |-> angle, why |-> "overlap", items |-> overlapped_modules]
    ELSE IF c.intersect # <<>>
    THEN [tag |-> "WARNING", angle |-> angle, why |-> "intersection", items |-> c.intersect]
    ELSE [tag |-> "INFO", angle |-> angle, why |-> "clean", items |-> <<>>]
\* The finding the evaluator appends for one angle.
Finding(angle, overlapped_modules, c) ==
    IF overlapped_modules # <<>>
    THEN [tag |-> "ERROR", angle |-> angle, why |-> "overlap", items |-> overlapped_modules]
    ELSE IF c.alignment # <<>>
    THEN [tag |-> "WARNING", angle |-> angle, why |-> "misalignment", items |-> c.alignment]
    ELSE IF c.intersect # <<>>
    THEN [tag |-> "WARNING", angle |-> angle, why |-> "intersection", items |-> c.intersect]
    ELSE [tag |-> "INFO", angle |-> angle, why |-> "clean", items |-> <<>>]

NoTrailingWarnings(intersect) == <<>>
\* The lines appended after the sweep, one for each pair of the last intersect.
TrailingWarnings(intersect) ==
    [k \in 1..Len(intersect) |->
        [tag |-> "Warning", angle |-> -1, why |-> "intersection", items |-> <<intersect[k]>>]]


(***************************************************************************)
(* The setters of pcb_tool_set.py, the report of check_design_rule         *)
(* (pcb_mcp.py) and the autorouter run of routing.py.  A message is the    *)
(* record [text, names]: the literal text of the format string and the     *)
(* strings formatted into it, in order.                                    *)
(***************************************************************************)
Message(text, names) == [text |-> text, names |-> names]

\* board.Save(file_path): what the file holds afterwards.
SavedBoard(pos, ori, lck, trk) ==
    [position |-> pos, orientation |-> ori, locked |-> lck, tracks |-> trk]

\* The centre of a box, as init_module computes it from the position and the
\* half sizes (the sizes of the model's courtyards are even).
BoxCenter(b) == <<b.x + b.w \div 2, b.y + b.h \div 2>>

\* A vector of the board in the frame of a footprint turned by a multiple of
\* 90 degrees: RotatePoint's inverse.
InverseRotatePoint(p, a) ==
    RotatePoint(p, IF a = 90 THEN -90 ELSE IF a = -90 THEN 90 ELSE a)

\* graphic.Move(v) of the graphics and the pads of a footprint, v in the
\* footprint's frame.
MoveGraphics(gs, v) ==
    [i \in 1..Len(gs) |-> [gs[i] EXCEPT !.box.x = @ + v[1], !.box.y = @ + v[2]]]
MovePads(ps, v) ==
    [i \in 1..Len(ps) |-> [ps[i] EXCEPT !.off = <<@[1] + v[1], @[2] + v[2]>>]]

\* The loop of init_module over the footprints: each one's graphics and pads
\* are moved by (position - centre of the courtyard) and the footprint is
\* locked; b is [graphics, pads, locked] so far.  courtyard_bbox.GetPosition()
\* raises AttributeError on a footprint without courtyard.
RECURSIVE InitModuleLoop(_, _)
InitModuleLoop(ms, b) ==
    IF ms = <<>> THEN [exc |-> "", acc |-> b]
    ELSE LET module == Head(ms)
             courtyard_bbox == get_footprint_courtyard(module)
         IN IF courtyard_bbox = None THEN [exc |-> "AttributeError", acc |-> b]
            ELSE LET c == BoxCenter(Val(courtyard_bbox))
                     v == InverseRotatePoint(<<position[module][1] - c[1],
                                               position[module][2] - c[2]>>,
                                             orientation[module])
                 IN InitModuleLoop(Tail(ms),
                        [graphics |-> [b.graphics EXCEPT ![module] = MoveGraphics(@, v)],
                         pads |-> [b.pads EXCEPT ![module] = MovePads(@, v)],
                         locked |-> [b.locked EXCEPT ![module] = TRUE]])

\* The pads of a footprint whose net name is not empty, as set_module_position
\* lists them: number, net and position with the footprint at pos.
ConnectedPadsAt(ref, pos) ==
    LET sel == SelectSeq(pads[ref], LAMBDA pad : pad.net # "")
    IN [i \in 1..Len(sel) |->
           [num |-> sel[i].number, net |-> sel[i].net,
            pos |-> <<pos[1] + RotatePoint(sel[i].off, orientation[ref])[1],
                      pos[2] + RotatePoint(sel[i].off, orientation[ref])[2]>>]]

\* The names of the board's nets with a net code above 0: board.FindNet gives
\* None for every other name, or the unconnected net of code 0.
BoardNets ==
    UNION {{pads[r][i].net : i \in 1..Len(pads[r])} : r \in Refs} \ {""}

Track(net, sx, sy, ex, ey, w) ==
    [net |-> net, start |-> <<sx, sy>>, end |-> <<ex, ey>>, width |-> w, layer |-> "F_Cu"]

\* The loop of set_net_track over range(len(start_x)), i counted from 1: an
\* index beyond the end of another list raises IndexError before the track
\* is added.
RECURSIVE TrackLoop(_, _, _, _)
TrackLoop(net_name, a, i, acc) ==
    IF i > Len(a.start_x) THEN [exc |-> "", acc |-> acc]
    ELSE IF \/ i > Len(a.start_y) \/ i > Len(a.end_x)
            \/ i > Len(a.end_y) \/ i > Len(a.width)
    THEN [exc |-> "IndexError", acc |-> acc]
    ELSE TrackLoop(net_name, a, i + 1,
                   Append(acc, Track(net_name, a.start_x[i], a.start_y[i],
                                     a.end_x[i], a.end_y[i], a.width[i])))

set_net_track_tracks_keeping_old(net_name, a) == TrackLoop(net_name, a, 1, tracks)
\* The deletion of the net's old tracks, then the loop.
set_net_track_tracks(net_name, a) ==
    TrackLoop(net_name, a, 1, SelectSeq(tracks, LAMBDA t : t.net # net_name))

\* "if keep_connections:": None and the empty list skip the loop.
Truthy(keep_connections) == keep_connections # None /\ Val(keep_connections) # <<>>

\* "(footprint_ref, pad_num) not in keep_connections" for pad i of ref.
NotKept(keep_connections, ref, i) ==
    ~\E k \in 1..Len(Val(keep_connections)) :
        Val(keep_connections)[k] = <<ref, pads[ref][i].number>>

\* The net code of each pad, by footprint and index, on the board that is
\* exported: with a keep_connections list that is not empty, the pads outside
\* the list have been set to net code 0.
ExportedNets(keep_connections) ==
    [ref \in Refs |->
        [i \in 1..Len(pads[ref]) |->
            IF Truthy(keep_connections) /\ NotKept(keep_connections, ref, i)
            THEN 0
            ELSE NetCode(pads[ref][i].net)]]

\* original_nets after the loop: a dictionary from (reference, pad number) to
\* the net code the pad had; of two pads of a footprint with the same number
\* the later one's code is the one that stays.
OriginalNets(keep_connections) ==
    IF ~Truthy(keep_connections) THEN <<>>
    ELSE LET keys == UNION {{<<ref, pads[ref][i].number>> :
                               i \in {j \in 1..Len(pads[ref]) :
                                        NotKept(keep_connections, ref, j)}} :
                            ref \in Refs}
             Last(key) == CHOOSE i \in 1..Len(pads[key[1]]) :
                             /\ pads[key[1]][i].number = key[2]
                             /\ \A j \in 1..Len(pads[key[1]]) :
                                   pads[key[1]][j].number = key[2] => j <= i
         IN [key \in keys |-> NetCode(pads[key[1]][Last(key)].net)]

RestoredNetsLoopSkipped(exported, original_nets) == exported
\* The net codes after the loop that follows the export: a pad whose
\* (reference, number) is a key of original_nets gets the code stored there.
RestoredNets(exported, original_nets) ==
    [ref \in Refs |->
        [i \in 1..Len(pads[ref]) |->
            IF <<ref, pads[ref][i].number>> \in DOMAIN original_nets
            THEN original_nets[<<ref, pads[ref][i].number>>]
            ELSE exported[ref][i]]]

\* The name of the net with a code.
NetOfCode(code) ==
    CASE code = 0 -> ""
      [] code = 1 -> "GND"
      [] code = 2 -> "A"
      [] code = 3 -> "B"

\* The pads of the board with the net codes of the routed board.
PadsWithNets(codes) ==
    [ref \in Refs |->
        [i \in 1..Len(pads[ref]) |-> [pads[ref][i] EXCEPT !.net = NetOfCode(codes[ref][i])]]]

NoRouter == [pc |-> "idle", starts |-> 0, board |-> <<>>, dsn |-> <<>>, pads |-> <<>>]

\* The numbered lines of one section of the report of check_design_rule.
Numbered(section, violations) ==
    [i \in 1..Len(violations) |-> [line |-> "item", section |-> section, n |-> i,
                                   v |-> violations[i]]]

DesignRuleReportStoppingAtError(onboard_violations, clearance_violations) ==
    IF \E i \in 1..Len(onboard_violations) : onboard_violations[i].kind = "Error"
    THEN <<[line |-> "summary", total |-> Len(onboard_violations),
            onboard |-> Len(onboard_violations), clearance |-> 0]>>
         \o Numbered("On-Board Violations", onboard_violations)
    ELSE <<[line |-> "passed"]>>
\* The report of check_design_rule, line by line, from the two lists.
DesignRuleReport(onboard_violations, clearance_violations) ==
    (IF Len(onboard_violations) + Len(clearance_violations) = 0
     THEN <<[line |-> "passed"]>>
     ELSE <<[line |-> "summary",
             total |-> Len(onboard_violations) + Len(clearance_violations),
             onboard |-> Len(onboard_violations),
             clearance |-> Len(clearance_violations)]>>)
    \o (IF Len(onboard_violations) > 0
        THEN <<[line |-> "header", section |-> "On-Board Violations"]>> ELSE <<>>)
    \o Numbered("On-Board Violations", onboard_violations)
    \o (IF Len(clearance_violations) > 0
        THEN <<[line |-> "header", section |-> "Clearance Violations"]>> ELSE <<>>)
    \o Numbered("Clearance Violations", clearance_violations)

\* check_design_rule on the loaded board: the two checks in order; neither
\* lets an exception out, so the handler of the loop is never entered.
check_design_rule(min_clearance) ==
    DesignRuleReport(check_board_onboard_violations,
                     check_board_clearance_violations(min_clearance))


(***************************************************************************)
(* The boards and the arguments the model draws from.                      *)
(***************************************************************************)
Graphic(layer, b) == [layer |-> layer, box |-> b]
Pad(number, off, net) == [number |-> number, off |-> off, net |-> net]
Drawing(kind, layer, b) == [kind |-> kind, layer |-> layer, box |-> b, pos |-> <<b.x, b.y>>]

\* A 2 mm x 2 mm courtyard centred on the footprint.
SquareFootprint == <<Graphic("F_CrtYd", Box(-10, -10, 10, 10))>>
\* A 2.4 mm x 2 mm courtyard drawn as two halves, under a larger silkscreen.
WideFootprint ==
    <<Graphic("F_CrtYd", Box(-12, -10, 0, 10)), Graphic("B_CrtYd", Box(0, -10, 12, 10)),
      Graphic("F_SilkS", Box(-30, -30, 30, 30))>>
\* No courtyard-layer graphics: the courtyard is undefined.
BareFootprint == <<Graphic("F_SilkS", Box(-10, -10, 10, 10))>>

GraphicsChoices ==
    {[U1 |-> g1, U2 |-> g2, U3 |-> g3] :
        g1 \in {SquareFootprint, WideFootprint, BareFootprint},
        g2 \in {SquareFootprint, BareFootprint},
        g3 \in {SquareFootprint, BareFootprint}}

PositionChoices ==
    {[U1 |-> <<0, 0>>, U2 |-> p2, U3 |-> p3] :
        p2 \in {<<21, 0>>, <<23, 0>>}, p3 \in {<<0, 40>>, <<22, 22>>}}

PadsU2 == <<Pad("1", <<-5, 0>>, "A"), Pad("2", <<5, 0>>, "GND")>>
PadsU3 == <<Pad("1", <<-5, -5>>, "B"), Pad("2", <<5, -5>>, "A"), Pad("3", <<0, 5>>, "GND")>>
\* U1 with its signal pads on the side of U3, or on the side of U2.
PadsFacingU3 ==
    [U1 |-> <<Pad("1", <<-5, 5>>, "A"), Pad("2", <<5, 5>>, "B"), Pad("3", <<0, -5>>, "GND")>>,
     U2 |-> PadsU2, U3 |-> PadsU3]
PadsFacingU2 ==
    [U1 |-> <<Pad("1", <<5, 5>>, "A"), Pad("2", <<5, -5>>, "B"), Pad("3", <<-5, 0>>, "")>>,
     U2 |-> PadsU2, U3 |-> PadsU3]

\* A board whose U3 has two pads with the number "2".
PadsRepeatedNumber ==
    [PadsFacingU3 EXCEPT !["U3"] = <<Pad("1", <<-5, -5>>, "B"), Pad("2", <<5, -5>>, "A"),
                                     Pad("2", <<0, 5>>, "GND")>>]

PadChoices == {PadsFacingU3, PadsFacingU2}

\* Orientations the footprints are loaded with.
OrientationChoices == {[U1 |-> a, U2 |-> 0, U3 |-> 0] : a \in {0, 90}}
\* U1 loaded upside down, or at an angle that is no multiple of 90 degrees.
OtherOrientationChoices == {[U1 |-> a, U2 |-> 0, U3 |-> 0] : a \in {180, 53}}

NoneLocked == [r \in Refs |-> FALSE]
LockChoices == {NoneLocked, [r \in Refs |-> r = "U3"]}

\* One outline rectangle; annotations inside and outside it.
OutlineRectangle ==
    <<Drawing("PCB_SHAPE", "Edge_Cuts", Box(-15, -15, 50, 60)),
      Drawing("PCB_SHAPE", "User_1", Box(0, 0, 10, 10)),
      Drawing("PCB_TEXT", "User_2", Box(45, 55, 70, 60)),
      Drawing("PCB_SHAPE", "Dwgs_User", Box(100, 100, 120, 120)),
      Drawing("PCB_SHAPE", "User_4", Box(-20, 0, -5, 5))>>
\* An outline of two edges, whose union is the rectangle (-15,-15)-(35,15).
OutlineTwoEdges ==
    <<Drawing("PCB_SHAPE", "Edge_Cuts", Box(-15, -15, 35, -15)),
      Drawing("PCB_DIMENSION", "User_1", Box(100, 100, 120, 120)),
      Drawing("PCB_SHAPE", "Edge_Cuts", Box(35, -15, 35, 15)),
      Drawing("PCB_TEXT", "User_3", Box(0, 0, 10, 5))>>
\* No outline.
NoOutline == <<Drawing("PCB_TEXT", "User_1", Box(0, 0, 5, 5))>>

DrawingChoices == {OutlineRectangle, OutlineTwoEdges, NoOutline}

\* min_clearance as the caller passes it: None or tenths of a millimetre.
ClearanceArgs == {None, Some(0), Some(2), Some(3)}
SweepClearanceArgs == {None, Some(0)}

\* module_ref as the caller passes it; "X9" is on no board.
RefArgs == Refs \cup {"X9"}

EvaluatorNames == {"check_module_status_by_angles", "check_module_status_by_positions"}

NoCall == [op |-> "", status |-> "", value |-> <<>>]
\* What check_pad2pad_connection has built when nothing was found.
NoConnection == [alignment |-> <<>>, intersect |-> <<>>, distance_info |-> <<>>,
                 segments |-> <<>>]
NoEval == [fn |-> "", module_ref |-> "", min_clearance |-> 0, idx |-> 0,
           msg |-> <<>>, intersect |-> <<>>, pad2pad |-> NoConnection]

\* The boards a run starts from: every placement and courtyard, with either
\* the outline varied or the pads, locks and orientations varied, or U1 at
\* another orientation on a board without outline.
Init ==
    /\ position \in PositionChoices
    /\ graphics \in GraphicsChoices
    /\ \/ /\ drawings \in DrawingChoices
          /\ pads = PadsFacingU3
          /\ locked = NoneLocked
          /\ orientation = [r \in Refs |-> 0]
       \/ /\ drawings = OutlineRectangle
          /\ pads \in PadChoices
          /\ locked \in LockChoices
          /\ orientation \in OrientationChoices
       \/ /\ drawings = NoOutline
          /\ pads = PadsFacingU3
          /\ locked = NoneLocked
          /\ orientation \in OtherOrientationChoices
    /\ tracks = <<>>
    /\ file = SavedBoard(position, orientation, locked, tracks)
    /\ router = NoRouter
    /\ evalPc = "idle"
    /\ evalCall = NoEval
    /\ ret = NoCall
    /\ segments = <<>>
    /\ segRet = None

(***************************************************************************)
(* The operations.                                                         *)
(***************************************************************************)
call_check_board_onboard_violations ==
    /\ evalPc = "idle"
    /\ ret' = [op |-> "check_board_onboard_violations", status |-> "returned",
               value |-> check_board_onboard_violations]
    /\ UNCHANGED <<boardVars, fileVars, evalPc, evalCall, segments, segRet>>

call_check_board_clearance_violations ==
    /\ evalPc = "idle"
    /\ \E min_clearance \in ClearanceArgs :
          ret' = [op |-> "check_board_clearance_violations", status |-> "returned",
                  arg |-> min_clearance,
                  value |-> check_board_clearance_violations(min_clearance)]
    /\ UNCHANGED <<boardVars, fileVars, evalPc, evalCall, segments, segRet>>

\* check_design_rule, first statement: pcbnew.LoadBoard(file_path).  The board
\* of the call is the one read from the file.
drc_load ==
    /\ evalPc = "idle"
    /\ \E min_clearance \in ClearanceArgs :
          evalCall' = [fn |-> "check_design_rule", arg |-> min_clearance]
    /\ position' = file.position
    /\ orientation' = file.orientation
    /\ locked' = file.locked
    /\ tracks' = file.tracks
    /\ evalPc' = "drc"
    /\ ret' = [op |-> "check_design_rule", status |-> "running", value |-> <<>>]
    /\ UNCHANGED <<graphics, pads, drawings, fileVars, segments, segRet>>

\* check_design_rule, the rest: the two checks and the report.
drc_report ==
    /\ evalPc = "drc"
    /\ ret' = [op |-> "check_design_rule", status |-> "returned", arg |-> evalCall.arg,
               value |-> check_design_rule(evalCall.arg)]
    /\ evalPc' = "idle"
    /\ evalCall' = NoEval
    /\ UNCHANGED <<boardVars, fileVars, segments, segRet>>

\* calculate_power_density has no exception handler: an exception leaves it.
call_calculate_power_density ==
    /\ evalPc = "idle"
    /\ \E r \in {calculate_power_density} :
          ret' = [op |-> "calculate_power_density",
                  status |-> IF r.exc = "" THEN "returned" ELSE "raised",
                  value |-> IF r.exc = "" THEN r.acc ELSE r.exc]
    /\ UNCHANGED <<boardVars, fileVars, evalPc, evalCall, segments, segRet>>

\* get_footprint_size of one footprint of the board.
call_get_footprint_size ==
    /\ evalPc = "idle"
    /\ \E module \in Refs :
          ret' = [op |-> "get_footprint_size", status |-> "returned",
                  module_ref |-> module, value |-> get_footprint_size(module)]
    /\ UNCHANGED <<boardVars, fileVars, evalPc, evalCall, segments, segRet>>

\* check_module_status_by_angles / _by_positions up to the loop: the margin's
\* default and the lookup of the footprint.  A reference that is on no board
\* gives None, and the loop's first statement raises AttributeError.
check_module_status_before_loop(refs) ==
    /\ evalPc = "idle"
    /\ \E fn \in EvaluatorNames, module_ref \in refs, min_clearance \in SweepClearanceArgs :
          IF module_ref \in Refs
          THEN /\ evalPc' = "sweep"
               /\ evalCall' = [fn |-> fn, module_ref |-> module_ref,
                               min_clearance |-> IF min_clearance = None THEN DefaultClearance
                                                 ELSE Val(min_clearance),
                               idx |-> 1, msg |-> <<>>, intersect |-> <<>>,
                               pad2pad |-> NoConnection]
               /\ ret' = [op |-> fn, status |-> "running", module_ref |-> module_ref,
                          value |-> <<>>]
          ELSE /\ ret' = [op |-> fn, status |-> "raised", module_ref |-> module_ref,
                          value |-> "AttributeError"]
               /\ UNCHANGED <<evalPc, evalCall>>
    /\ UNCHANGED <<boardVars, fileVars, segments, segRet>>

call_check_module_status == check_module_status_before_loop(RefArgs)

sweep_rotate_unlocking ==
    /\ evalPc = "sweep"
    /\ orientation' = [orientation EXCEPT
                          ![evalCall.module_ref] = Normalize180(Angles[evalCall.idx])]
    /\ locked' = [locked EXCEPT ![evalCall.module_ref] = FALSE]
    /\ evalPc' = "check"
    /\ UNCHANGED <<position, graphics, pads, drawings, tracks, fileVars, evalCall, ret,
                   segments, segRet>>
\* The first statement of the loop body: mod1.SetOrientationDegrees(angle).
sweep_rotate ==
    /\ evalPc = "sweep"
    /\ orientation' = [orientation EXCEPT
                          ![evalCall.module_ref] = Normalize180(Angles[evalCall.idx])]
    /\ evalPc' = "check"
    /\ UNCHANGED <<position, locked, graphics, pads, drawings, tracks, fileVars, evalCall, ret,
                   segments, segRet>>

\* The rest of the loop body: the two checks and the finding of this angle;
\* pad2pad keeps what the call of check_pad2pad_connection built.
\* An exception of check_module_clearance leaves the evaluator.
sweep_check ==
    /\ evalPc = "check"
    /\ \E overlapped_modules \in {check_module_clearance(evalCall.module_ref,
                                                         evalCall.min_clearance)},
          c \in {check_pad2pad_connection(evalCall.module_ref)} :
          IF overlapped_modules.exc # ""
          THEN /\ ret' = [op |-> evalCall.fn, status |-> "raised",
                          module_ref |-> evalCall.module_ref,
                          value |-> overlapped_modules.exc]
               /\ evalPc' = "idle"
               /\ evalCall' = NoEval
          ELSE /\ evalCall' = [evalCall EXCEPT
                                  !.msg = Append(@, Finding(Angles[evalCall.idx],
                                                            overlapped_modules.acc, c)),
                                  !.intersect = c.intersect,
                                  !.pad2pad = c,
                                  !.idx = @ + 1]
               /\ evalPc' = IF evalCall.idx = Len(Angles) THEN "finish" ELSE "sweep"
               /\ UNCHANGED ret
    /\ UNCHANGED <<boardVars, fileVars, segments, segRet>>

\* After the loop: the trailing warnings and the return.
sweep_return ==
    /\ evalPc = "finish"
    /\ ret' = [op |-> evalCall.fn, status |-> "returned",
               module_ref |-> evalCall.module_ref,
               min_clearance |-> evalCall.min_clearance,
               value |-> evalCall.msg \o TrailingWarnings(evalCall.intersect)]
    /\ evalPc' = "idle"
    /\ evalCall' = NoEval
    /\ UNCHANGED <<boardVars, fileVars, segments, segRet>>

Next ==
    \/ call_check_board_onboard_violations
    \/ call_check_board_clearance_violations
    \/ call_calculate_power_density
    \/ call_get_footprint_size
    \/ drc_load
    \/ drc_report
    \/ call_check_module_status
    \/ sweep_rotate
    \/ sweep_check
    \/ sweep_return

Spec == Init /\ [][Next]_vars


(***************************************************************************)
(* The operations that change the board and its file, on one board: the    *)
(* setters, the autorouter run, and the placement evaluator called for a   *)
(* footprint that is not on the board.                                     *)
(***************************************************************************)
EditRefArgs == {"U1", "X9"}
\* (pos_x, pos_y) as the caller passes them: None keeps the coordinate.
PositionArgs == {<<None, None>>, <<Some(30), None>>, <<None, Some(5)>>}
AngleArgs == {None, Some(90), Some(270)}
\* "Z" is no net of the board, "" is the name of the unconnected net.
NetArgs == {"A", "Z", ""}
TrackLists(sx, sy, ex, ey, w) ==
    [start_x |-> sx, start_y |-> sy, end_x |-> ex, end_y |-> ey, width |-> w]
\* Lists of equal lengths 0, 1 and 2; width one short; start_y empty;
\* start_x one short.
TrackArgs ==
    { TrackLists(<<>>, <<>>, <<>>, <<>>, <<>>),
      TrackLists(<<0>>, <<0>>, <<10>>, <<0>>, <<2>>),
      TrackLists(<<0, 10>>, <<0, 0>>, <<10, 10>>, <<0, 20>>, <<2, 3>>),
      TrackLists(<<0, 10>>, <<0, 0>>, <<10, 10>>, <<0, 20>>, <<2>>),
      TrackLists(<<0>>, <<>>, <<10>>, <<0>>, <<2>>),
      TrackLists(<<0>>, <<0, 0>>, <<10, 10>>, <<0, 20>>, <<2, 3>>) }
KeepArgs == {None, Some(<<>>), Some(<<<<"U1", "1">>, <<"U2", "1">>>>)}
\* What the autorouter's session file holds after a run that succeeded.
RoutedTracks == <<Track("A", -5, 5, 18, 0, 2), Track("B", 5, 5, -5, 35, 2)>>
InitialTracks == <<Track("A", 0, 0, 20, 0, 2), Track("B", 0, 0, 0, 40, 2)>>
AllLocked == [r \in Refs |-> TRUE]

EditInit ==
    /\ position = [U1 |-> <<0, 0>>, U2 |-> <<23, 0>>, U3 |-> <<0, 40>>]
    /\ orientation = [r \in Refs |-> 0]
    /\ locked \in {NoneLocked, AllLocked}
    /\ graphics = [r \in Refs |-> SquareFootprint]
    /\ pads \in {PadsFacingU3, PadsRepeatedNumber}
    /\ drawings = OutlineRectangle
    /\ tracks = InitialTracks
    /\ file = SavedBoard(position, orientation, locked, tracks)
    /\ router = NoRouter
    /\ evalPc = "idle"
    /\ evalCall = NoEval
    /\ ret = NoCall
    /\ segments = <<>>
    /\ segRet = None

ZeroIfNone(arg, current) == IF arg = None THEN 0 ELSE Val(arg)
\* "if pos_x is None: pos_x = current_pos_x", and the same for pos_y and angle.
KeepIfNone(arg, current) == IF arg = None THEN current ELSE Val(arg)

\* set_module_position.  FindFootprintByReference gives None for a reference
\* that is on no board; module.SetLocked(False) then raises AttributeError,
\* which the first handler turns into an error string.
call_set_module_position ==
    /\ evalPc = "idle" /\ router.pc = "idle"
    /\ \E module_ref \in EditRefArgs, p \in PositionArgs :
          IF module_ref \notin Refs
          THEN /\ ret' = [op |-> "set_module_position", status |-> "returned",
                          module_ref |-> module_ref,
                          value |-> Message("Error: Invalid board or module object - {}",
                                            <<"'NoneType' object has no attribute 'SetLocked'">>)]
               /\ UNCHANGED <<position, locked, file>>
          ELSE \E pos \in {<<KeepIfNone(p[1], position[module_ref][1]),
                             KeepIfNone(p[2], position[module_ref][2])>>} :
               /\ locked' = [locked EXCEPT ![module_ref] = FALSE]
               /\ position' = [position EXCEPT ![module_ref] = pos]
               /\ file' = SavedBoard(position', orientation, locked', tracks)
               /\ ret' = [op |-> "set_module_position", status |-> "returned",
                          module_ref |-> module_ref, pos_x |-> p[1], pos_y |-> p[2],
                          value |-> [text |-> "SUCCESS: The new position of {} is set to ({} mm, {} mm). ",
                                     names |-> <<module_ref>>, pos |-> pos,
                                     pads |-> ConnectedPadsAt(module_ref, pos)]]
    /\ UNCHANGED <<orientation, graphics, pads, drawings, tracks, router,
                   evalPc, evalCall, segments, segRet>>

\* set_module_angle; a missing footprint as in set_module_position.
call_set_module_angle ==
    /\ evalPc = "idle" /\ router.pc = "idle"
    /\ \E module_ref \in EditRefArgs, angle \in AngleArgs :
          IF module_ref \notin Refs
          THEN /\ ret' = [op |-> "set_module_angle", status |-> "returned",
                          module_ref |-> module_ref,
                          value |-> Message("Error: Invalid board or module object - {}",
                                            <<"'NoneType' object has no attribute 'SetLocked'">>)]
               /\ UNCHANGED <<orientation, locked, file>>
          ELSE \E angle_degrees \in {Normalize180(KeepIfNone(angle, orientation[module_ref]))} :
               /\ locked' = [locked EXCEPT ![module_ref] = FALSE]
               /\ orientation' = [orientation EXCEPT ![module_ref] = angle_degrees]
               /\ file' = SavedBoard(position, orientation', locked', tracks)
               /\ ret' = [op |-> "set_module_angle", status |-> "returned",
                          module_ref |-> module_ref, angle |-> angle,
                          value |-> [text |-> "SUCCESS: The new angle of {} is set to {} degrees.",
                                     names |-> <<module_ref>>, angle |-> angle_degrees]]
    /\ UNCHANGED <<position, graphics, pads, drawings, tracks, router,
                   evalPc, evalCall, segments, segRet>>

\* set_net_track.  The old tracks of the net are deleted before the loop; an
\* exception of the loop is turned into an error string by the second
\* handler, after which the board is not saved.
call_set_net_track ==
    /\ evalPc = "idle" /\ router.pc = "idle"
    /\ \E net_name \in NetArgs, a \in TrackArgs :
          IF net_name \notin BoardNets
          THEN /\ ret' = [op |-> "set_net_track", status |-> "returned",
                          net_name |-> net_name, lists |-> a,
                          value |-> Message("Error: Net '{}' not found in board", <<net_name>>)]
               /\ UNCHANGED <<tracks, file>>
          ELSE \E r \in {set_net_track_tracks(net_name, a)} :
               /\ tracks' = r.acc
               /\ IF r.exc = ""
                  THEN /\ file' = SavedBoard(position, orientation, locked, r.acc)
                       /\ ret' = [op |-> "set_net_track", status |-> "returned",
                                  net_name |-> net_name, lists |-> a,
                                  value |-> Message("SUCCESS: Creating tracks for net '{}'",
                                                    <<net_name>>)]
                  ELSE /\ UNCHANGED file
                       /\ ret' = [op |-> "set_net_track", status |-> "returned",
                                  net_name |-> net_name, lists |-> a,
                                  value |-> Message("Error: Failed to create net traces - {}",
                                                    <<"list index out of range">>)]
    /\ UNCHANGED <<position, orientation, locked, graphics, pads, drawings, router,
                   evalPc, evalCall, segments, segRet>>

\* run_freerouting up to the start of the autorouter: the board is loaded
\* from the file, the DSN is exported with the nets of the pads outside
\* keep_connections set to 0 and set back afterwards, and subprocess.run
\* starts the process.
router_start ==
    /\ evalPc = "idle" /\ router.pc = "idle"
    /\ \E keep_connections \in KeepArgs :
          /\ router' = [pc |-> "running", starts |-> 1, board |-> file,
                        dsn |-> ExportedNets(keep_connections),
                        pads |-> RestoredNets(ExportedNets(keep_connections),
                                              OriginalNets(keep_connections))]
          /\ ret' = [op |-> "run_freerouting", status |-> "running", value |-> <<>>,
                     keep_connections |-> keep_connections]
    /\ UNCHANGED <<boardVars, file, evalPc, evalCall, segments, segRet>>

router_exit_status_ignored ==
    /\ router.pc = "running"
    /\ \E returncode \in {0, 1} :
          /\ file' = [router.board EXCEPT !.tracks = RoutedTracks]
          /\ pads' = PadsWithNets(router.pads)
          /\ ret' = [op |-> "run_freerouting",
                     status |-> IF returncode # 0 THEN "raised" ELSE "returned",
                     starts |-> router.starts,
                     value |-> [exc |-> "CalledProcessError", returncode |-> returncode]]
    /\ router' = NoRouter
    /\ UNCHANGED <<position, orientation, locked, graphics, drawings, tracks,
                   evalPc, evalCall, segments, segRet>>
\* The autorouter exits.  With check=True a status other than 0 raises
\* CalledProcessError out of run_freerouting; otherwise the session is
\* imported, its tracks replacing the board's, and the board is saved with
\* the net codes its pads have after the restoring loop.
router_exit ==
    /\ router.pc = "running"
    /\ \E returncode \in {0, 1} :
          IF returncode # 0
          THEN /\ ret' = [op |-> "run_freerouting", status |-> "raised",
                          starts |-> router.starts,
                          value |-> [exc |-> "CalledProcessError", returncode |-> returncode]]
               /\ UNCHANGED <<file, pads>>
          ELSE /\ file' = [router.board EXCEPT !.tracks = RoutedTracks]
               /\ pads' = PadsWithNets(router.pads)
               /\ ret' = [op |-> "run_freerouting", status |-> "returned",
                          starts |-> router.starts, value |-> "ses_file"]
    /\ router' = NoRouter
    /\ UNCHANGED <<position, orientation, locked, graphics, drawings, tracks,
                   evalPc, evalCall, segments, segRet>>

\* The placement evaluator called for a reference that is on no board.
call_check_module_status_not_found ==
    /\ router.pc = "idle"
    /\ check_module_status_before_loop({"X9"})

EditNext ==
    \/ call_set_module_position
    \/ call_set_module_angle
    \/ call_set_net_track
    \/ router_start
    \/ router_exit
    \/ call_check_module_status_not_found

EditSpec == EditInit /\ [][EditNext]_vars


(***************************************************************************)
(* A placement session on one board file: init_module, the two setters of  *)
(* a footprint and set_board_cut.                                          *)
(***************************************************************************)
\* A courtyard whose centre is 0.2 mm to the right of the footprint's origin.
OffCentreFootprint ==
    <<Graphic("F_SilkS", Box(-8, -8, 8, 8)), Graphic("F_CrtYd", Box(-10, -10, 14, 10))>>

\* The footprints of the board: every courtyard centred, or U3's off centre,
\* or U2 without courtyard.
PlaceGraphicsChoices ==
    { [r \in Refs |-> SquareFootprint],
      [U1 |-> SquareFootprint, U2 |-> SquareFootprint, U3 |-> OffCentreFootprint],
      [U1 |-> SquareFootprint, U2 |-> BareFootprint, U3 |-> SquareFootprint] }

PlaceInit ==
    /\ position = [U1 |-> <<0, 0>>, U2 |-> <<23, 0>>, U3 |-> <<0, 40>>]
    /\ orientation \in {[U1 |-> 0, U2 |-> 0, U3 |-> a] : a \in {0, 90}}
    /\ locked \in {NoneLocked, [r \in Refs |-> r = "U2"]}
    /\ graphics \in PlaceGraphicsChoices
    /\ pads = PadsFacingU3
    /\ drawings \in {OutlineRectangle, OutlineTwoEdges, NoOutline}
    /\ tracks = InitialTracks
    /\ file = SavedBoard(position, orientation, locked, tracks)
    /\ router = NoRouter
    /\ evalPc = "idle"
    /\ evalCall = NoEval
    /\ ret = NoCall
    /\ segments = <<>>
    /\ segRet = None

\* init_module, first statement: pcbnew.LoadBoard(file_path).
init_load ==
    /\ evalPc = "idle" /\ router.pc = "idle"
    /\ position' = file.position
    /\ orientation' = file.orientation
    /\ locked' = file.locked
    /\ tracks' = file.tracks
    /\ evalPc' = "init"
    /\ ret' = [op |-> "init_module", status |-> "running", value |-> <<>>]
    /\ UNCHANGED <<graphics, pads, drawings, fileVars, evalCall, segments, segRet>>

\* init_module, the rest: the loop and the save.  An exception of the loop is
\* turned into an error string and the board that was loaded is dropped
\* without having been saved.
init_center_and_lock ==
    /\ evalPc = "init"
    /\ \E r \in {InitModuleLoop(Modules, [graphics |-> graphics, pads |-> pads,
                                           locked |-> locked])} :
          IF r.exc = ""
          THEN /\ graphics' = r.acc.graphics
               /\ pads' = r.acc.pads
               /\ locked' = r.acc.locked
               /\ file' = SavedBoard(position, orientation, r.acc.locked, tracks)
               /\ ret' = [op |-> "init_module", status |-> "returned",
                          value |-> Message("SUCCESSfully initialized modules to center courtyard at origin.",
                                            <<>>)]
          ELSE /\ UNCHANGED <<graphics, pads, locked, file>>
               /\ ret' = [op |-> "init_module", status |-> "returned",
                          value |-> Message("Error: Failed to initialize new PCB board - {}",
                                            <<"'NoneType' object has no attribute 'GetPosition'">>)]
    /\ evalPc' = "idle"
    /\ UNCHANGED <<position, orientation, drawings, tracks, router, evalCall, segments, segRet>>

KeepOutlineShapes(dr) == dr
\* "isinstance(item, pcbnew.PCB_SHAPE) and item.GetLayer() == pcbnew.Edge_Cuts":
\* the drawings that are left after the deleting loop of set_board_cut.
DeleteOutlineShapes(dr) ==
    SelectSeq(dr, LAMBDA d : ~(d.kind = "PCB_SHAPE" /\ d.layer = "Edge_Cuts"))

\* The rectangle set_board_cut adds, from the centre and the size of the
\* bounding box b: start = centre - size / 2, end = centre + size / 2.  The
\* centre is kept doubled, so that the halves of an odd size are exact.
BoardCutRectangle(b) ==
    LET size_x == b.w
        size_y == b.h
        center2_x == 2 * b.x + b.w
        center2_y == 2 * b.y + b.h
    IN Box((center2_x - size_x) \div 2, (center2_y - size_y) \div 2,
           (center2_x + size_x) \div 2, (center2_y + size_y) \div 2)

\* The drawings of the board after set_board_cut, from those of the file.
set_board_cut_drawings(dr) ==
    LET kept == DeleteOutlineShapes(dr)
        bbox == ComputeBoundingBoxOf(kept, file.tracks)
    IN Append(kept, Drawing("PCB_SHAPE", "Edge_Cuts",
                            BoardCutRectangle(IF bbox = None THEN Box(0, 0, 0, 0)
                                              ELSE Val(bbox))))

\* set_board_cut: the board is loaded, its shapes on Edge_Cuts are deleted,
\* the rectangle of the bounding box of what is left is added on Edge_Cuts and
\* the board is saved.
call_set_board_cut ==
    /\ evalPc = "idle" /\ router.pc = "idle"
    /\ position' = file.position
    /\ orientation' = file.orientation
    /\ \E dr \in {set_board_cut_drawings(drawings)} :
          /\ drawings' = dr
          /\ ret' = [op |-> "set_board_cut", status |-> "returned",
                     value |-> Message("SUCCESS: Setting board cut edge. New Board Center: ({} mm, {} mm), New Board Size: {} mm x {} mm",
                                       <<dr[Len(dr)].box>>)]
    /\ locked' = file.locked
    /\ tracks' = file.tracks
    /\ UNCHANGED <<graphics, pads, fileVars, evalPc, evalCall, segments, segRet>>

PlaceNext ==
    \/ init_load
    \/ init_center_and_lock
    \/ call_set_module_position
    \/ call_set_module_angle
    \/ call_set_board_cut

PlaceSpec == PlaceInit /\ [][PlaceNext]_vars


(***************************************************************************)
(* The segment-intersection detector on its own: the inputs are sequences  *)
(* of at most MaxSegs segments with integer coordinates, on which the      *)
(* floating-point arithmetic of ccw is exact.                              *)
(***************************************************************************)
MaxSegs == 3

SegNets == {"A", "B"}

\* Crossing diagonals (both directions), an edge, a segment that ends on the
\* edge and crosses the diagonals, a point, a part of a diagonal, a far segment.
SegGeometries ==
    { <<0, 0, 10, 10>>, <<0, 10, 10, 0>>, <<10, 0, 0, 10>>, <<0, 0, 10, 0>>,
      <<5, 0, 5, 10>>, <<5, 5, 5, 5>>, <<0, 0, 5, 5>>, <<20, 0, 20, 10>> }

SegPool == {<<g[1], g[2], g[3], g[4], n>> : g \in SegGeometries, n \in SegNets}

SegInit ==
    /\ position = [U1 |-> <<0, 0>>, U2 |-> <<23, 0>>, U3 |-> <<0, 40>>]
    /\ orientation = [r \in Refs |-> 0]
    /\ locked = NoneLocked
    /\ graphics = [r \in Refs |-> SquareFootprint]
    /\ pads = [r \in Refs |-> <<>>]
    /\ drawings = <<>>
    /\ tracks = <<>>
    /\ file = SavedBoard(position, orientation, locked, tracks)
    /\ router = NoRouter
    /\ evalPc = "idle"
    /\ evalCall = NoEval
    /\ ret = NoCall
    /\ segments \in UNION {[1..n -> SegPool] : n \in 0..MaxSegs}
    /\ segRet = None

call_check_segments_intersect ==
    /\ segRet = None
    /\ segRet' = Some(check_segments_intersect(segments))
    /\ UNCHANGED <<boardVars, fileVars, evalPc, evalCall, ret, segments>>

SegNext == call_check_segments_intersect

SegSpec == SegInit /\ [][SegNext]_vars


(***************************************************************************)
(* The courtyard helpers and the clearance tests called on their own, on   *)
(* boards whose first footprint carries up to MaxGraphics graphics in      *)
(* every order.                                                            *)
(***************************************************************************)
MaxGraphics == 3

\* Three courtyard rectangles on the two courtyard layers, and a silkscreen
\* rectangle larger than all of them.
GraphicPool ==
    { Graphic("F_CrtYd", Box(-12, -10, 0, 10)), Graphic("B_CrtYd", Box(0, -10, 12, 10)),
      Graphic("F_CrtYd", Box(-5, -15, 5, -8)), Graphic("F_SilkS", Box(-30, -30, 30, 30)) }

\* The lists of at most MaxGraphics different graphics of the pool.
GraphicLists ==
    {g \in UNION {[1..n -> GraphicPool] : n \in 0..MaxGraphics} :
        \A i, j \in 1..Len(g) : i # j => g[i] # g[j]}

\* The two edges of OutlineTwoEdges in the other order.
OutlineTwoEdgesReversed ==
    <<Drawing("PCB_TEXT", "User_3", Box(0, 0, 10, 5)),
      Drawing("PCB_SHAPE", "Edge_Cuts", Box(35, -15, 35, 15)),
      Drawing("PCB_DIMENSION", "User_1", Box(100, 100, 120, 120)),
      Drawing("PCB_SHAPE", "Edge_Cuts", Box(-15, -15, 35, -15))>>

GeomInit ==
    /\ position \in {[U1 |-> <<0, 0>>, U2 |-> p2, U3 |-> <<0, 22>>] :
                        p2 \in {<<21, 0>>, <<25, 0>>}}
    /\ orientation \in OrientationChoices
    /\ locked = NoneLocked
    /\ \/ /\ graphics \in {[U1 |-> g1, U2 |-> g2, U3 |-> SquareFootprint] :
                              g1 \in GraphicLists, g2 \in {SquareFootprint, BareFootprint}}
          /\ drawings = OutlineRectangle
       \/ /\ graphics = [U1 |-> WideFootprint, U2 |-> SquareFootprint, U3 |-> SquareFootprint]
          /\ drawings \in {OutlineTwoEdges, OutlineTwoEdgesReversed, NoOutline}
    /\ pads = PadsFacingU3
    /\ tracks = <<>>
    /\ file = SavedBoard(position, orientation, locked, tracks)
    /\ router = NoRouter
    /\ evalPc = "idle"
    /\ evalCall = NoEval
    /\ ret = NoCall
    /\ segments = <<>>
    /\ segRet = None

call_get_footprint_courtyard ==
    /\ evalPc = "idle"
    /\ \E module \in Refs :
          ret' = [op |-> "get_footprint_courtyard", status |-> "returned",
                  module_ref |-> module, value |-> get_footprint_courtyard(module)]
    /\ UNCHANGED <<boardVars, fileVars, evalPc, evalCall, segments, segRet>>

call_get_board_courtyard ==
    /\ evalPc = "idle"
    /\ ret' = [op |-> "get_board_courtyard", status |-> "returned",
               value |-> get_board_courtyard]
    /\ UNCHANGED <<boardVars, fileVars, evalPc, evalCall, segments, segRet>>

\* check_module_clearance called on its own, min_clearance as the caller
\* passes it.  It has no exception handler; bbox1.GetPosition() on a missing
\* courtyard raises AttributeError, then pcbnew.FromMM(None) raises TypeError.
call_check_module_clearance ==
    /\ evalPc = "idle"
    /\ \E mod1 \in Refs, min_clearance \in ClearanceArgs :
          \E r \in {IF min_clearance # None
                    THEN check_module_clearance(mod1, Val(min_clearance))
                    ELSE IF get_footprint_courtyard(mod1) = None
                    THEN [exc |-> "AttributeError", acc |-> <<>>]
                    ELSE [exc |-> "TypeError", acc |-> <<>>]} :
             ret' = [op |-> "check_module_clearance",
                     status |-> IF r.exc = "" THEN "returned" ELSE "raised",
                     module_ref |-> mod1, arg |-> min_clearance,
                     value |-> IF r.exc = "" THEN r.acc ELSE r.exc]
    /\ UNCHANGED <<boardVars, fileVars, evalPc, evalCall, segments, segRet>>

GeomNext ==
    \/ call_get_footprint_courtyard
    \/ call_get_board_courtyard
    \/ call_check_module_clearance
    \/ call_check_board_clearance_violations

GeomSpec == GeomInit /\ [][GeomNext]_vars


(***************************************************************************)
(* Properties of the segment-intersection detector, under SegSpec.         *)
(***************************************************************************)
SegResult == Val(segRet)

\* Twice the signed area of the triangle a, b, c.
Cross(ax, ay, bx, by, cx, cy) == (bx - ax) * (cy - ay) - (by - ay) * (cx - ax)
Sign(v) == IF v > 0 THEN 1 ELSE IF v < 0 THEN -1 ELSE 0

\* s and t cross at one point interior to both: the ends of each lie strictly
\* on opposite sides of the other's line.
ProperCross(s, t) ==
    /\ Sign(Cross(s[1], s[2], s[3], s[4], t[1], t[2]))
         * Sign(Cross(s[1], s[2], s[3], s[4], t[3], t[4])) < 0
    /\ Sign(Cross(t[1], t[2], t[3], t[4], s[1], s[2]))
         * Sign(Cross(t[1], t[2], t[3], t[4], s[3], s[4])) < 0

\* C8: check_segments_intersect never reports two segments of the same net,
\* also when they cross: every reported tuple has net_i # net_j, and these are
\* the nets of two segments of different nets.
C8_SameNetNeverReported ==
    segRet # None =>
        \A k \in 1..Len(SegResult) :
            /\ SegResult[k][3] # SegResult[k][4]
            /\ segments[SegResult[k][1] + 1][5] # segments[SegResult[k][2] + 1][5]

\* C8 witness: the detector has run on an input holding two segments of one
\* net that cross each other.
C8_Witness ==
    /\ segRet # None
    /\ \E i, j \in 1..Len(segments) :
          /\ i < j
          /\ segments[i][5] = segments[j][5]
          /\ ProperCross(segments[i], segments[j])

SegDegenerate(s) == s[1] = s[3] /\ s[2] = s[4]

\* The four ends of s and t lie on one line.
AllCollinear(s, t) ==
    /\ Cross(s[1], s[2], s[3], s[4], t[1], t[2]) = 0
    /\ Cross(s[1], s[2], s[3], s[4], t[3], t[4]) = 0
    /\ Cross(t[1], t[2], t[3], t[4], s[1], s[2]) = 0
    /\ Cross(t[1], t[2], t[3], t[4], s[3], s[4]) = 0

\* s and t, not on one line, have a point in common: no end of one lies
\* strictly on the same side of the other's line as its other end.
CommonPoint(s, t) ==
    /\ ~AllCollinear(s, t)
    /\ Sign(Cross(s[1], s[2], s[3], s[4], t[1], t[2]))
         * Sign(Cross(s[1], s[2], s[3], s[4], t[3], t[4])) <= 0
    /\ Sign(Cross(t[1], t[2], t[3], t[4], s[1], s[2]))
         * Sign(Cross(t[1], t[2], t[3], t[4], s[3], s[4])) <= 0

\* s and t meet but do not cross: an end of one lies on the other.
OnlyTouch(s, t) == CommonPoint(s, t) /\ ~ProperCross(s, t)

ReportedSegs(k) == <<segments[SegResult[k][1] + 1], segments[SegResult[k][2] + 1]>>

EvaluatorReturned == ret.op \in EvaluatorNames /\ ret.status = "returned"

Severities == {"ERROR", "WARNING", "INFO"}

\* The orientation as an angle of [0, 360).
Degrees360(a) == IF a < 0 THEN a + 360 ELSE a

AllCourtyardsDefined == \A r \in Refs : get_footprint_courtyard(r) # None

\* The first four entries of a returned report: one finding for each of the
\* angles 0, 90, 180, 270 in this order, each tagged with one severity.
FourAngleFindings(msg) ==
    /\ Len(msg) >= 4
    /\ msg[1].angle = 0 /\ msg[2].angle = 90 /\ msg[3].angle = 180 /\ msg[4].angle = 270
    /\ \A k \in 1..4 : msg[k].tag \in Severities

Overlapping(ref, mc) ==
    {r \in Refs \ {ref} :
        BoxIntersects(BoxInflate(Val(get_footprint_courtyard(ref)), mc),
                      Val(get_footprint_courtyard(r)))}

\* C2: the finding of an angle is an ERROR if a footprint overlaps the target
\* at this angle; otherwise a WARNING if the connectivity analysis flags a
\* misalignment; otherwise a WARNING if two connections intersect; otherwise an
\* INFO.  (Checked when the finding has been appended and the footprint still
\* stands at the angle.)
C2_SeverityByPriority ==
    (evalPc \in {"sweep", "finish"} /\ evalCall.idx > 1) =>
        LET f == evalCall.msg[evalCall.idx - 1]
            c == check_pad2pad_connection(evalCall.module_ref)
        IN /\ f.angle = Degrees360(orientation[evalCall.module_ref])
           /\ f.tag = IF Overlapping(evalCall.module_ref, evalCall.min_clearance) # {}
                      THEN "ERROR"
                      ELSE IF c.alignment # <<>> THEN "WARNING"
                      ELSE IF c.intersect # <<>> THEN "WARNING"
                      ELSE "INFO"
           /\ (f.tag = "WARNING" /\ c.alignment = <<>>) => f.why = "intersection"

\* C2 witness: an ERROR finding at an angle where the analysis also flags a
\* misalignment and an intersection.
C2_Witness ==
    /\ evalPc \in {"sweep", "finish"}
    /\ evalCall.idx > 1
    /\ evalCall.msg[evalCall.idx - 1].tag = "ERROR"
    /\ check_pad2pad_connection(evalCall.module_ref).alignment # <<>>
    /\ check_pad2pad_connection(evalCall.module_ref).intersect # <<>>

\* C3: during the sweep the target's orientation is 0, 90, 180, 270 in this
\* order (each change of it goes to the next of these angles, the first to 0),
\* and when the evaluator returns it is 270, whatever it was before the call.
C3_SweepOrderEndsAt270 ==
    /\ [](EvaluatorReturned => Degrees360(orientation[ret.module_ref]) = 270)
    /\ [][(evalPc # "idle" /\ orientation' # orientation) =>
             LET before == Degrees360(orientation[evalCall.module_ref])
                 after == Degrees360(orientation'[evalCall.module_ref])
                 started == evalCall.msg # <<>>
             IN /\ \A r \in Refs \ {evalCall.module_ref} : orientation'[r] = orientation[r]
                /\ IF ~started THEN after = 0
                   ELSE <<before, after>> \in {<<0, 90>>, <<90, 180>>, <<180, 270>>}]_vars
    /\ [][(evalPc = "finish" /\ evalPc' = "idle") =>
             (Degrees360(orientation[evalCall.module_ref]) = 270
              /\ Len(evalCall.msg) = 4)]_vars

\* C3 witness: the evaluator has returned for U1, which was loaded with another
\* orientation, and U1 stands at 270 degrees.
C3_Witness ==
    /\ EvaluatorReturned
    /\ ret.module_ref = "U1"
    /\ orientation["U1"] = -90


(***************************************************************************)
(* Properties of the board checks, under Spec.                             *)
(***************************************************************************)
ClearanceReturned == ret.op = "check_board_clearance_violations"
OnboardReturned == ret.op = "check_board_onboard_violations"

\* The margin a clearance call tested with, in tenths of a millimetre.
MarginOf(arg) == IF arg = None THEN 2 ELSE Val(arg)

Courtyard(i) == get_footprint_courtyard(Modules[i])

\* The clearance violations of a result (its error lines left out).
IsClearanceIssue(e) == e.kind = "Clearance Issue"
ClearanceIssues == SelectSeq(ret.value, IsClearanceIssue)

\* The violations of the result that name the pair (i, j), in this order.
IssuesOf(i, j) ==
    {k \in 1..Len(ClearanceIssues) :
        ClearanceIssues[k].ref1 = Modules[i] /\ ClearanceIssues[k].ref2 = Modules[j]}

\* Footprint i's courtyard inflated by m meets footprint j's courtyard.
PairTooClose(i, j, m) ==
    /\ Courtyard(i) # None
    /\ Courtyard(j) # None
    /\ BoxIntersects(BoxInflate(Val(Courtyard(i)), m), Val(Courtyard(j)))

ModuleIndex(ref) == CHOOSE i \in 1..Len(Modules) : Modules[i] = ref

ClearanceAsClaimed ==
    /\ \A i, j \in 1..Len(Modules) :
          i < j => Cardinality(IssuesOf(i, j))
                      = IF PairTooClose(i, j, MarginOf(ret.arg)) THEN 1 ELSE 0
    /\ \A k \in 1..Len(ClearanceIssues) :
          ModuleIndex(ClearanceIssues[k].ref1) < ModuleIndex(ClearanceIssues[k].ref2)
    /\ \A k, l \in 1..Len(ClearanceIssues) :
          k < l =>
             LET i1 == ModuleIndex(ClearanceIssues[k].ref1)
                 j1 == ModuleIndex(ClearanceIssues[k].ref2)
                 i2 == ModuleIndex(ClearanceIssues[l].ref1)
                 j2 == ModuleIndex(ClearanceIssues[l].ref2)
             IN i1 < i2 \/ (i1 = i2 /\ j1 < j2)

\* C4: check_board_clearance_violations returns exactly one violation for each
\* pair i < j of footprints for which i's courtyard inflated by min_clearance
\* meets j's courtyard, and none for any other pair; no footprint is paired
\* with itself, no pair is listed twice, and the violations are in the order
\* the pairs are visited.
C4_OneViolationPerClosePair == ClearanceReturned => ClearanceAsClaimed

\* The gap between two boxes along each axis (0 when they overlap on it).
GapX(a, b) == Max(0, Max(a.x, b.x) - Min(a.x + a.w, b.x + b.w))
GapY(a, b) == Max(0, Max(a.y, b.y) - Min(a.y + a.h, b.y + b.h))

HasOutline == get_board_courtyard # None

IsErrorLine(e) == e.kind = "Error"

IsAnnotation(item) ==
    item.kind \in {"PCB_SHAPE", "PCB_TEXT"} /\ item.layer \in UserLayers

\* C6: check_board_onboard_violations never lists a footprint whose courtyard
\* is undefined; the call does not fail because of such a footprint (on a board
\* with an outline the result holds no error line), and the other footprints
\* and the annotations are still checked (each one that is not contained in
\* the outline is listed).
C6_UndefinedCourtyardSkipped ==
    OnboardReturned =>
        /\ \A r \in Refs :
              get_footprint_courtyard(r) = None
                 => \A k \in 1..Len(ret.value) : ret.value[k].what # r
        /\ HasOutline =>
              /\ \A k \in 1..Len(ret.value) : ~IsErrorLine(ret.value[k])
              /\ \A r \in Refs :
                    (/\ get_footprint_courtyard(r) # None
                     /\ ~BoxContains(Val(get_board_courtyard), Val(get_footprint_courtyard(r))))
                    => \E k \in 1..Len(ret.value) : ret.value[k].what = r
              /\ \A d \in 1..Len(drawings) :
                    (IsAnnotation(drawings[d])
                       /\ ~BoxContains(Val(get_board_courtyard), drawings[d].box))
                    => \E k \in 1..Len(ret.value) :
                          /\ ret.value[k].what \in {"Shape", "Text"}
                          /\ ret.value[k].size = BoxSize(drawings[d].box)

\* The list C7 describes: the footprints with a defined courtyard that is not
\* contained in the outline, then the annotations that are not contained in it.
OnboardAsClaimed ==
    LET outline == Val(get_board_courtyard)
        FootprintOut(r) ==
            /\ get_footprint_courtyard(r) # None
            /\ ~BoxContains(outline, Val(get_footprint_courtyard(r)))
        AnnotationOut(d) == IsAnnotation(d) /\ ~BoxContains(outline, d.box)
        fs == SelectSeq(Modules, FootprintOut)
        ds == SelectSeq(drawings, AnnotationOut)
    IN [k \in 1..Len(fs) |->
           OnBoardIssue(fs[k], BoxSize(Val(get_footprint_courtyard(fs[k]))), position[fs[k]])]
       \o [k \in 1..Len(ds) |->
              OnBoardIssue(IF ds[k].kind = "PCB_SHAPE" THEN "Shape" ELSE "Text",
                           BoxSize(ds[k].box), ds[k].pos)]

\* C7: on a board with an outline, check_board_onboard_violations returns
\* exactly one violation for each footprint whose defined courtyard is not
\* contained in the outline rectangle, followed by one for each shape or text
\* on the layers User_1..User_4 whose bounding box is not contained in it,
\* labelled Shape or Text; nothing else is listed.
C7_OnboardExactList ==
    (OnboardReturned /\ HasOutline) => ret.value = OnboardAsClaimed


(***************************************************************************)
(* Properties of check_pad2pad_connection, under Spec: what the call made  *)
(* by the placement evaluator at the current angle has built.              *)
(***************************************************************************)
\* The evaluator has run check_pad2pad_connection on the board as it is now.
Pad2PadDone == evalPc \in {"sweep", "finish"} /\ evalCall.idx > 1

Target == evalCall.module_ref

\* The pairs <<i, r, k>>: pad i of the target on a net other than "" and
\* "GND", pad k of footprint r with the same net code, r not the target and
\* not locked.
ConnectedPairs ==
    {t \in UNION {{<<i, r, k>> : i \in 1..Len(pads[Target]), k \in 1..Len(pads[r])} :
                    r \in Refs} :
        /\ pads[Target][t[1]].net \notin {"", "GND"}
        /\ t[2] # Target
        /\ ~locked[t[2]]
        /\ NetCode(pads[t[2]][t[3]].net) = NetCode(pads[Target][t[1]].net)}

PairSegment(t) ==
    <<PadPosition(Target, pads[Target][t[1]])[1], PadPosition(Target, pads[Target][t[1]])[2],
      PadPosition(t[2], pads[t[2]][t[3]])[1], PadPosition(t[2], pads[t[2]][t[3]])[2],
      pads[Target][t[1]].net>>

PairNote(t) ==
    <<pads[Target][t[1]].number, pads[t[2]][t[3]].number, pads[Target][t[1]].net,
      Dist2(PadPosition(Target, pads[Target][t[1]]), PadPosition(t[2], pads[t[2]][t[3]]))>>

PairFlag(t) ==
    <<pads[Target][t[1]].number, Target, pads[t[2]][t[3]].number, t[2],
      pads[Target][t[1]].net>>

\* The distance notes, as <<k, j>>: note j of the k-th connected footprint.
NoteIndices ==
    UNION {{<<k, j>> : j \in 1..Len(evalCall.pad2pad.distance_info[k].connections)} :
              k \in 1..Len(evalCall.pad2pad.distance_info)}

\* C12: the segments built for the target are exactly those of the connected
\* pairs, one segment and one distance note for each pair (the pads of the
\* model's boards have different positions and numbers, so different pairs
\* have different segments and notes): none to a locked footprint, to the
\* target itself, or on the GND or the unconnected net.
C12_SegmentsAreTheConnectedPairs ==
    Pad2PadDone =>
        /\ Len(evalCall.pad2pad.segments) = Cardinality(ConnectedPairs)
        /\ \A t \in ConnectedPairs :
              \E k \in 1..Len(evalCall.pad2pad.segments) :
                  evalCall.pad2pad.segments[k] = PairSegment(t)
        /\ \A k \in 1..Len(evalCall.pad2pad.segments) :
              \E t \in ConnectedPairs : evalCall.pad2pad.segments[k] = PairSegment(t)
        /\ Cardinality(NoteIndices) = Cardinality(ConnectedPairs)
        /\ \A t \in ConnectedPairs :
              \E n \in NoteIndices :
                  /\ evalCall.pad2pad.distance_info[n[1]].peer = t[2]
                  /\ evalCall.pad2pad.distance_info[n[1]].connections[n[2]] = PairNote(t)

\* C12 witness: the call has built a segment for a target that has a GND pad,
\* on a board with a locked footprint holding a pad of the target's nets.
C12_Witness ==
    /\ Pad2PadDone
    /\ evalCall.pad2pad.segments # <<>>
    /\ \E i \in 1..Len(pads[Target]) : pads[Target][i].net = "GND"
    /\ \E r \in Refs \ {Target} :
          /\ locked[r]
          /\ \E i \in 1..Len(pads[Target]), k \in 1..Len(pads[r]) :
                /\ pads[Target][i].net \notin {"", "GND"}
                /\ pads[r][k].net = pads[Target][i].net

PowerDensityCalled == ret.op = "calculate_power_density"
PowerDensityReturned == PowerDensityCalled /\ ret.status = "returned"

NotEdgeCuts(d) == d.layer # "Edge_Cuts"

\* The effective area: the bounding box of everything on the board except the
\* Edge_Cuts outline.
BoundingBoxWithoutOutline ==
    LET sel == SelectSeq(drawings, NotEdgeCuts)
        fps == SelectSeq([i \in 1..Len(Modules) |-> FootprintBoundingBox(Modules[i])],
                         LAMBDA b : b # None)
    IN MergeAll(None, [i \in 1..Len(sel) |-> sel[i].box]
                        \o [i \in 1..Len(fps) |-> Val(fps[i])])

EffectiveArea == Val(BoundingBoxWithoutOutline).w * Val(BoundingBoxWithoutOutline).h

CourtyardArea(ref) ==
    IF get_footprint_courtyard(ref) = None THEN 0
    ELSE Val(get_footprint_courtyard(ref)).w * Val(get_footprint_courtyard(ref)).h

TotalCourtyardArea == CourtyardArea("U1") + CourtyardArea("U2") + CourtyardArea("U3")

\* C14: a returned density report divides the total courtyard area by the
\* effective area (the bounding box of everything except the Edge_Cuts
\* outline), and warns of loose placement exactly when that ratio is below
\* 40 percent, whatever the size of the outline.
C14_RatioOverEffectiveArea ==
    PowerDensityReturned =>
        /\ ret.value.footprint_area = TotalCourtyardArea
        /\ ret.value.board_area = EffectiveArea
        /\ (ret.value.info = "Warning: modules are placed too loosely"
               <=> TotalCourtyardArea * 100 < 40 * EffectiveArea)

\* C15: calculate_power_density returns a report on every board, also with a
\* footprint without courtyard, and the report's footprint area is the sum of
\* the areas of the courtyards that are defined.
C15_UndefinedCourtyardCountsZero ==
    PowerDensityCalled =>
        /\ ret.status = "returned"
        /\ ret.value.footprint_area = TotalCourtyardArea

\* C16: get_footprint_size of a footprint with a courtyard of width w and
\* height h on the board returns (h, w) when the footprint's orientation is
\* 90 or 270 degrees (270 is read back from the engine as -90), and (w, h) at
\* every other orientation.
C16_SwappedAtQuarterTurnsOnly ==
    (ret.op = "get_footprint_size" /\ get_footprint_courtyard(ret.module_ref) # None) =>
        LET c == Val(get_footprint_courtyard(ret.module_ref))
        IN IF Normalize180(orientation[ret.module_ref]) \in {90, Normalize180(270)}
           THEN ret.value = <<Some(c.h), Some(c.w)>>
           ELSE ret.value = <<Some(c.w), Some(c.h)>>

\* C16 witness: the size has been read of a footprint whose courtyard is not
\* square and that the placement sweep has left at 270 degrees.
C16_Witness ==
    /\ ret.op = "get_footprint_size"
    /\ orientation[ret.module_ref] = Normalize180(270)
    /\ get_footprint_courtyard(ret.module_ref) # None
    /\ ret.value[1] # ret.value[2]


(***************************************************************************)
(* Properties of the operations on a missing footprint or net, of          *)
(* set_net_track and of run_freerouting, under EditSpec.                   *)
(***************************************************************************)
IsFailure(msg) == msg.text \in {"Error: Invalid board or module object - {}",
                                "Error: Net '{}' not found in board",
                                "Error: Failed to create net traces - {}"}

Names(msg, name) == \E k \in 1..Len(msg.names) : msg.names[k] = name

\* C17: a call of set_module_position, set_module_angle or the placement
\* evaluator for a reference that is on no board raises nothing, returns a
\* failure that names the reference and leaves the board and the file as they
\* were; a call of set_net_track for a net that is not on the board returns a
\* failure that names the net.
C17_NotFoundIsAFailureNamingTheReference ==
    [][/\ (/\ ret'.op \in {"set_module_position", "set_module_angle"} \cup EvaluatorNames
           /\ ret'.module_ref \notin Refs)
          => /\ ret'.status = "returned"
             /\ IsFailure(ret'.value)
             /\ Names(ret'.value, ret'.module_ref)
             /\ UNCHANGED <<boardVars, file>>
       /\ (ret'.op = "set_net_track" /\ ret'.net_name \notin BoardNets)
          => /\ ret'.status = "returned"
             /\ IsFailure(ret'.value)
             /\ Names(ret'.value, ret'.net_name)]_vars

Mismatched(a) ==
    \/ Len(a.start_y) # Len(a.start_x) \/ Len(a.end_x) # Len(a.start_x)
    \/ Len(a.end_y) # Len(a.start_x) \/ Len(a.width) # Len(a.start_x)

\* C18: a call of set_net_track with lists of different lengths returns an
\* error and leaves the tracks of the board and the file as they were.
C18_MismatchedListsRejectedUnchanged ==
    [][(ret'.op = "set_net_track" /\ Mismatched(ret'.lists))
          => /\ IsFailure(ret'.value)
             /\ tracks' = tracks
             /\ file' = file]_vars

\* C20: when the autorouter exits with a status other than 0, run_freerouting
\* raises the process error with that status, has started the autorouter
\* once, and leaves the file as it was: no session is imported and nothing
\* is saved.
C20_RouterFailurePropagatedNothingSaved ==
    [][(router.pc = "running" /\ ret'.op = "run_freerouting" /\ ret'.status = "raised")
          => /\ ret'.value.exc = "CalledProcessError"
             /\ ret'.value.returncode # 0
             /\ ret'.starts = 1
             /\ router'.pc = "idle"
             /\ file' = file]_vars

\* C20 witness: run_freerouting has raised on a file whose tracks are not
\* those of a routing session.
C20_Witness ==
    /\ ret.op = "run_freerouting"
    /\ ret.status = "raised"
    /\ file.tracks # RoutedTracks
    /\ file.tracks # <<>>


(***************************************************************************)
(* Properties of check_design_rule, under Spec.                            *)
(***************************************************************************)
DesignRuleReturned == ret.op = "check_design_rule" /\ ret.status = "returned"

HasItem(section, i, v) ==
    \E k \in 1..Len(ret.value) :
        /\ ret.value[k].line = "item"
        /\ ret.value[k].section = section
        /\ ret.value[k].n = i
        /\ ret.value[k].v = v

\* C19: check_design_rule never raises; its report holds every line of the
\* on-board check, the error line of a failed on-board check included (no
\* Edge_Cuts outline, or a footprint without courtyard), and every line of
\* the clearance check, which is run whatever the on-board check gave.
C19_ReportKeepsBothChecks ==
    /\ ret.op = "check_design_rule" => ret.status \in {"running", "returned"}
    /\ DesignRuleReturned =>
          /\ \A i \in 1..Len(check_board_onboard_violations) :
                HasItem("On-Board Violations", i, check_board_onboard_violations[i])
          /\ \A i \in 1..Len(check_board_clearance_violations(ret.arg)) :
                HasItem("Clearance Violations", i, check_board_clearance_violations(ret.arg)[i])
          /\ (get_board_courtyard = None \/ ~AllCourtyardsDefined)
                => \E k \in 1..Len(ret.value) :
                      /\ ret.value[k].line = "item"
                      /\ ret.value[k].section = "On-Board Violations"
                      /\ ret.value[k].v.kind = "Error"

\* C19 witness: a report on a board without outline, whose on-board check
\* failed, that also holds a clearance violation.
C19_Witness ==
    /\ DesignRuleReturned
    /\ get_board_courtyard = None
    /\ AllCourtyardsDefined
    /\ \E k \in 1..Len(ret.value) :
          /\ ret.value[k].line = "item"
          /\ ret.value[k].section = "Clearance Violations"
          /\ ret.value[k].v.kind # "Error"

(***************************************************************************)
(* Purity of the geometric checks and the frame of the placement           *)
(* evaluator, under Spec.                                                  *)
(***************************************************************************)
PureCheckNames == {"check_board_onboard_violations", "check_board_clearance_violations",
                   "calculate_power_density"}

\* The outcome of calculate_power_density on the board as it is now.
PowerDensityOutcome ==
    IF calculate_power_density.exc = "" THEN calculate_power_density.acc
    ELSE calculate_power_density.exc

\* A step of the placement evaluator: its start, or a step of its loop.
EvaluatorStep ==
    \/ evalPc \in {"sweep", "check", "finish"}
    \/ evalPc = "idle" /\ ret'.op \in EvaluatorNames

Margins == {0, 2, 3}

Lists(list, ref) == \E k \in 1..Len(list) : list[k] = ref

\* C22: for the courtyards A and B of any two footprints and every margin m,
\* A inflated by m meets B exactly when B inflated by m meets A; so a pair
\* i < j is listed by check_board_clearance_violations exactly when the test
\* made from the second footprint succeeds, and check_module_clearance(M)
\* lists N exactly when check_module_clearance(N) lists M.
C22_ClearanceTestSymmetric ==
    /\ \A r1, r2 \in Refs, m \in Margins :
          (get_footprint_courtyard(r1) # None /\ get_footprint_courtyard(r2) # None) =>
             (BoxIntersects(BoxInflate(Val(get_footprint_courtyard(r1)), m),
                            Val(get_footprint_courtyard(r2)))
                <=> BoxIntersects(BoxInflate(Val(get_footprint_courtyard(r2)), m),
                                  Val(get_footprint_courtyard(r1))))
    /\ (ret.op = "check_module_clearance" /\ ret.status = "returned"
          /\ AllCourtyardsDefined) =>
          \A n \in Refs \ {ret.module_ref} :
             Lists(ret.value, n)
                <=> Lists(check_module_clearance(n, Val(ret.arg)).acc, ret.module_ref)
    /\ (ClearanceReturned /\ AllCourtyardsDefined) =>
          \A i, j \in 1..Len(Modules) :
             i < j => (IssuesOf(i, j) # {}
                         <=> BoxIntersects(BoxInflate(Val(Courtyard(j)), MarginOf(ret.arg)),
                                           Val(Courtyard(i))))

\* C22 witness: check_module_clearance of U2 has listed U1 alone, whose
\* courtyard, of another size than U2's, is exactly the margin away.
C22_Witness ==
    /\ ret.op = "check_module_clearance"
    /\ ret.status = "returned"
    /\ AllCourtyardsDefined
    /\ ret.module_ref = "U2"
    /\ ret.value = <<"U1">>
    /\ BoxSize(Val(Courtyard(1))) # BoxSize(Val(Courtyard(2)))
    /\ GapX(Val(Courtyard(1)), Val(Courtyard(2))) = Val(ret.arg)
    /\ Val(ret.arg) > 0

SetMin(S) == CHOOSE m \in S : \A n \in S : m <= n
SetMax(S) == CHOOSE m \in S : \A n \in S : m >= n

\* The smallest axis-aligned rectangle covering the boxes of a set S that is
\* not empty.
Cover(S) ==
    Box(SetMin({b.x : b \in S}), SetMin({b.y : b \in S}),
        SetMax({b.x + b.w : b \in S}), SetMax({b.y + b.h : b \in S}))

\* The set of the boxes, on the board, of the courtyard-layer graphics of a
\* footprint, and of the Edge_Cuts drawings of the board.
CourtyardBoxes(ref) ==
    {PlacedBox(ref, graphics[ref][i].box) :
        i \in {k \in 1..Len(graphics[ref]) : graphics[ref][k].layer \in {"F_CrtYd", "B_CrtYd"}}}
OutlineBoxes ==
    {drawings[i].box : i \in {k \in 1..Len(drawings) : drawings[k].layer = "Edge_Cuts"}}

\* C23: what get_footprint_courtyard returns is determined by the set of the
\* footprint's courtyard-layer boxes, whatever their order in the list and
\* whatever lies on other layers: None when the set is empty, and otherwise
\* the smallest axis-aligned rectangle covering them; get_board_courtyard
\* likewise for the boxes of the Edge_Cuts drawings.
C23_UnionIsTheCoverOfTheSet ==
    /\ ret.op = "get_footprint_courtyard" =>
          ret.value = IF CourtyardBoxes(ret.module_ref) = {} THEN None
                      ELSE Some(Cover(CourtyardBoxes(ret.module_ref)))
    /\ ret.op = "get_board_courtyard" =>
          ret.value = IF OutlineBoxes = {} THEN None ELSE Some(Cover(OutlineBoxes))

\* C23 witness: the courtyard has been computed of a footprint, turned by 90
\* degrees, whose list starts with a silkscreen graphic larger than the
\* courtyard and holds two courtyard boxes of which neither covers the other.
C23_Witness ==
    /\ ret.op = "get_footprint_courtyard"
    /\ orientation[ret.module_ref] = 90
    /\ Len(graphics[ret.module_ref]) = 3
    /\ graphics[ret.module_ref][1].layer = "F_SilkS"
    /\ Cardinality(CourtyardBoxes(ret.module_ref)) = 2
    /\ \A b \in CourtyardBoxes(ret.module_ref) : Some(b) # ret.value

\* C25: a clearance call whose margin is None succeeds and tests with the
\* 0.2 mm inflation: check_board_clearance_violations(None) returns what it
\* returns for 0.2 mm, and check_module_clearance(M, None) returns the
\* footprints that its call with 0.2 mm lists, or fails as that call does.
C25_MissingMarginIsTwoTenths ==
    /\ (ClearanceReturned /\ ret.arg = None) =>
          ret.value = check_board_clearance_violations(Some(DefaultClearance))
    /\ (ret.op = "check_module_clearance" /\ ret.arg = None) =>
          LET r == check_module_clearance(ret.module_ref, DefaultClearance)
          IN IF r.exc = "" THEN ret.status = "returned" /\ ret.value = r.acc
             ELSE ret.status = "raised" /\ ret.value = r.exc

(***************************************************************************)
(* Properties of the setters and of the lock flags, under EditSpec.        *)
(***************************************************************************)
OthersKeepPlace(ref) ==
    \A r \in Refs \ {ref} : position'[r] = position[r] /\ orientation'[r] = orientation[r]

SetterNames == {"set_module_position", "set_module_angle"}

IsSuccess(msg) ==
    msg.text \in {"SUCCESS: The new position of {} is set to ({} mm, {} mm). ",
                  "SUCCESS: The new angle of {} is set to {} degrees."}

\* C26: when init_module returns, every footprint of the board and of the
\* file is locked; a successful call of set_module_position or
\* set_module_angle unlocks its target and leaves the lock flag of every other
\* footprint as it was, and no other step changes a lock flag (so that after
\* init_module the unlocked footprints are the targets of the calls made
\* since); check_pad2pad_connection pairs a pad only with pads of unlocked
\* footprints.
C26_InitLocksAllSettersUnlockTarget ==
    /\ [][(ret'.op = "init_module" /\ ret'.status = "returned") =>
             (locked' = AllLocked /\ file'.locked = AllLocked)]_vars
    /\ [][(ret'.op \in SetterNames /\ IsSuccess(ret'.value)) =>
             /\ locked' = [locked EXCEPT ![ret'.module_ref] = FALSE]
             /\ file'.locked = locked']_vars
    /\ [][(ret'.op \in SetterNames /\ ~IsSuccess(ret'.value)) =>
             UNCHANGED <<locked, file>>]_vars
    /\ [][(ret'.op \notin SetterNames /\
            ~(ret'.op = "init_module" /\ ret'.status = "returned")) =>
             locked' = locked]_vars
    /\ [](\A ref \in Refs : \A k \in 1..Len(PadPairs(ref)) :
             ~locked[PadPairs(ref)[k].peer])

(***************************************************************************)
(* Properties of the net codes during run_freerouting, under EditSpec.     *)
(***************************************************************************)
UniquePadNumbers ==
    \A ref \in Refs : \A i, j \in 1..Len(pads[ref]) :
        pads[ref][i].number = pads[ref][j].number => i = j

KeptPads(keep_connections) ==
    IF keep_connections = None THEN {}
    ELSE {Val(keep_connections)[k] : k \in 1..Len(Val(keep_connections))}

PadIndices == {<<ref, i>> : ref \in Refs, i \in 1..3} \cap
              UNION {{<<ref, i>> : i \in 1..Len(pads[ref])} : ref \in Refs}

OriginalCode(q) == NetCode(pads[q[1]][q[2]].net)

\* C27: on a board whose pad numbers are unique within each footprint, while
\* the autorouter runs on the exported problem: with a keep_connections list
\* that is not empty the export held net code 0 for every pad whose
\* (reference, number) is not in the list and the original code for every
\* listed pad, with keep_connections empty or None it held the original code
\* of every pad, and after the export every pad of the routed board has its
\* original code again; no step of the run changes the net of a pad of the
\* board.
C27_ExportZeroesUnlistedThenRestores ==
    /\ [](router.pc = "running" /\ UniquePadNumbers =>
            \A q \in PadIndices :
               LET key == <<q[1], pads[q[1]][q[2]].number>>
                   kept == KeptPads(ret.keep_connections)
               IN /\ (kept # {} /\ key \notin kept) => router.dsn[q[1]][q[2]] = 0
                  /\ (kept = {} \/ key \in kept) => router.dsn[q[1]][q[2]] = OriginalCode(q)
                  /\ router.pads[q[1]][q[2]] = OriginalCode(q))
    /\ [][UniquePadNumbers => pads' = pads]_vars

\* C27 witness: the autorouter runs on an export in which a pad outside the
\* list, connected on the board, has code 0 and a listed pad has its code.
C27_Witness ==
    /\ router.pc = "running"
    /\ UniquePadNumbers
    /\ \E q \in PadIndices :
          /\ <<q[1], pads[q[1]][q[2]].number>> \notin KeptPads(ret.keep_connections)
          /\ OriginalCode(q) # 0
          /\ router.dsn[q[1]][q[2]] = 0
    /\ \E q \in PadIndices :
          /\ <<q[1], pads[q[1]][q[2]].number>> \in KeptPads(ret.keep_connections)
          /\ router.dsn[q[1]][q[2]] # 0

(***************************************************************************)
(* Properties of set_net_track, under EditSpec.                            *)
(***************************************************************************)
TracksOfNet(trk, net_name) == SelectSeq(trk, LAMBDA t : t.net = net_name)
TracksOfOtherNets(trk, net_name) == SelectSeq(trk, LAMBDA t : t.net # net_name)

NetTrackSucceeded(r) ==
    /\ r.op = "set_net_track"
    /\ r.value.text = "SUCCESS: Creating tracks for net '{}'"

IsOutlineShape(d) == d.kind = "PCB_SHAPE" /\ d.layer = "Edge_Cuts"

OutlineShapes(dr) == {i \in 1..Len(dr) : IsOutlineShape(dr[i])}

\* The boxes of everything on the board but the shapes on Edge_Cuts.
ContentBoxes ==
    {drawings[i].box : i \in (1..Len(drawings)) \ OutlineShapes(drawings)}
    \cup UNION {{PlacedBox(ref, graphics[ref][i].box) : i \in 1..Len(graphics[ref])} :
                  ref \in Refs}
    \cup UNION {{Box(PadPosition(ref, pads[ref][i])[1], PadPosition(ref, pads[ref][i])[2],
                      PadPosition(ref, pads[ref][i])[1], PadPosition(ref, pads[ref][i])[2]) :
                   i \in 1..Len(pads[ref])} : ref \in Refs}
    \cup {TrackBox(tracks[i]) : i \in 1..Len(tracks)}

Reversed(s) == <<s[3], s[4], s[1], s[2], s[5]>>

\* C30: the pairs check_segments_intersect reports do not depend on which
\* end of a segment is given first: with any one segment of the input
\* replaced by the same segment with its ends exchanged, the result is the
\* same, also when an end of a segment lies on the line of another one.
C30_EndpointOrderIrrelevant ==
    segRet # None =>
        \A i \in 1..Len(segments) :
            check_segments_intersect([segments EXCEPT ![i] = Reversed(@)]) = SegResult

====
